---- MODULE Spec2Model ----
(***************************************************************************)
(* bnfuzzer: a lexer, a recursive-descent parser, the per-line driver that *)
(* builds the grammar table, the two validators and the random generator.  *)
(*                                                                         *)
(* Characters are runes, modelled as their code points.  A source line is  *)
(* a sequence of code points.  Go's 0-based column Col addresses           *)
(* Content[Col + 1] here.                                                  *)
(*                                                                         *)
(* A Go uint is modelled as a little-endian tuple of 16-bit limbs so that  *)
(* values at and above 2^31 keep their width; int32 values are plain       *)
(* integers.                                                               *)
(***************************************************************************)
EXTENDS Integers, Sequences, FiniteSets, TLC

(***************************************************************************)
(* Machine integers                                                        *)
(***************************************************************************)

\* Width of Go's uint on the modelled build (Token.Number, Repetition bounds).
UintBits == 64

UintLimbs == UintBits \div 16

\* The uint with value n, for 0 <= n < 2^31.
UintOf(n) ==
    [i \in 1..UintLimbs |->
        IF i = 1 THEN n % 65536 ELSE IF i = 2 THEN n \div 65536 ELSE 0]

RECURSIVE UintMulAddFrom(_, _, _, _)
\* Limbs i.. of x * m + carry, the carry out of the top limb dropped.
UintMulAddFrom(x, m, carry, i) ==
    IF i > UintLimbs THEN <<>>
    ELSE LET t == x[i] * m + carry
         IN  <<t % 65536>> \o UintMulAddFrom(x, m, t \div 65536, i + 1)

\* x * m + a in uint arithmetic (wraps at 2^UintBits); m, a < 2^15.
UintMulAdd(x, m, a) == UintMulAddFrom(x, m, a, 1)

RECURSIVE UintLessFrom(_, _, _)
UintLessFrom(x, y, i) ==
    IF i = 0 THEN FALSE
    ELSE IF x[i] # y[i] THEN x[i] < y[i]
    ELSE UintLessFrom(x, y, i - 1)

\* x < y on uint.
UintLess(x, y) == UintLessFrom(x, y, UintLimbs)

RECURSIVE UintSubFrom(_, _, _, _)
UintSubFrom(x, y, borrow, i) ==
    IF i > UintLimbs THEN <<>>
    ELSE LET t == x[i] - y[i] - borrow
         IN  IF t < 0
             THEN <<t + 65536>> \o UintSubFrom(x, y, 1, i + 1)
             ELSE <<t>> \o UintSubFrom(x, y, 0, i + 1)

\* x - y in uint arithmetic (wraps below zero).
UintSub(x, y) == UintSubFrom(x, y, 0, 1)

\* x + 1 in uint arithmetic.
UintInc(x) == UintMulAdd(x, 1, 1)

\* int32(x): the low 32 bits of x read as a signed two's-complement value.
Int32OfUint(x) ==
    IF x[2] >= 32768 THEN (x[2] - 65536) * 65536 + x[1]
    ELSE x[2] * 65536 + x[1]

\* a + b on int32 with wrap-around, for b >= 0.
Int32Add(a, b) ==
    IF a > 0 /\ b > 2147483647 - a
    THEN (a - 2147483647 - 1) + (b - 2147483647 - 1)
    ELSE a + b

(***************************************************************************)
(* Character classes (package unicode), on the Latin-1 code points         *)
(***************************************************************************)

IsSpace(ch) == ch \in {9, 10, 11, 12, 13, 32, 133, 160}

IsLetter(ch) ==
    \/ ch \in 65..90
    \/ ch \in 97..122
    \/ ch \in {170, 181, 186}
    \/ ch \in 192..214
    \/ ch \in 216..246
    \/ ch \in 248..255

\* Categories Nd, Nl and No: the ASCII digits, the superscripts 2, 3, 1 and
\* the vulgar fractions.
IsNumber(ch) == ch \in 48..57 \/ ch \in {178, 179, 185, 188, 189, 190}

(***************************************************************************)
(* Lexer                                                                   *)
(***************************************************************************)

Loc(row, col) == [Row |-> row, Col |-> col]

ZeroLoc == Loc(0, 0)

\* A diagnostic: the message template, the characters or numbers formatted
\* into it (Args) and the token kinds formatted into it (Kinds).
DiagErr(loc, err, args, kinds) ==
    [Loc |-> loc, Err |-> err, Args |-> args, Kinds |-> kinds]

\* The nil error.
Nil == DiagErr(ZeroLoc, "", <<>>, <<>>)

\* A token with every field but Loc at its zero value (Kind 0 is TokenEOL).
ZeroToken(loc) ==
    [Kind |-> "TokenEOL", Text |-> <<>>, Number |-> UintOf(0), Loc |-> loc]

NewLexer(content, row) ==
    [Content |-> content, Row |-> row, Col |-> 0,
     PeekBuf |-> ZeroToken(ZeroLoc), PeekFull |-> FALSE]

\* A faulty variant of LiteralTokens: the shorter of two texts comes first.
LiteralTokensShortestFirst ==
    << [Text |-> <<61>>,         Kind |-> "TokenDefinition"],      \* =
       [Text |-> <<61, 47>>,     Kind |-> "TokenIncAlternative"],  \* =/
       [Text |-> <<58, 58, 61>>, Kind |-> "TokenDefinition"],      \* ::=
       [Text |-> <<124>>,        Kind |-> "TokenAlternation"],     \* |
       [Text |-> <<47>>,         Kind |-> "TokenAlternation"],     \* /
       [Text |-> <<91>>,         Kind |-> "TokenBracketOpen"],     \* [
       [Text |-> <<93>>,         Kind |-> "TokenBracketClose"],    \* ]
       [Text |-> <<123>>,        Kind |-> "TokenCurlyOpen"],       \* {
       [Text |-> <<125>>,        Kind |-> "TokenCurlyClose"],      \* }
       [Text |-> <<40>>,         Kind |-> "TokenParenOpen"],       \* (
       [Text |-> <<41>>,         Kind |-> "TokenParenClose"],      \* )
       [Text |-> <<46, 46, 46>>, Kind |-> "TokenEllipsis"],        \* ...
       [Text |-> <<42>>,         Kind |-> "TokenAsterisk"] >>      \* *

\* The literal tokens, in the order ChopToken scans them.
LiteralTokens ==
    << [Text |-> <<58, 58, 61>>, Kind |-> "TokenDefinition"],      \* ::=
       [Text |-> <<61, 47>>,     Kind |-> "TokenIncAlternative"],  \* =/
       [Text |-> <<61>>,         Kind |-> "TokenDefinition"],      \* =
       [Text |-> <<124>>,        Kind |-> "TokenAlternation"],     \* |
       [Text |-> <<47>>,         Kind |-> "TokenAlternation"],     \* /
       [Text |-> <<91>>,         Kind |-> "TokenBracketOpen"],     \* [
       [Text |-> <<93>>,         Kind |-> "TokenBracketClose"],    \* ]
       [Text |-> <<123>>,        Kind |-> "TokenCurlyOpen"],       \* {
       [Text |-> <<125>>,        Kind |-> "TokenCurlyClose"],      \* }
       [Text |-> <<40>>,         Kind |-> "TokenParenOpen"],       \* (
       [Text |-> <<41>>,         Kind |-> "TokenParenClose"],      \* )
       [Text |-> <<46, 46, 46>>, Kind |-> "TokenEllipsis"],        \* ...
       [Text |-> <<42>>,         Kind |-> "TokenAsterisk"] >>      \* *

RECURSIVE TrimCol(_, _)
TrimCol(content, col) ==
    IF col < Len(content) /\ IsSpace(content[col + 1])
    THEN TrimCol(content, col + 1)
    ELSE col

\* Lexer.Trim
Trim(lexer) == [lexer EXCEPT !.Col = TrimCol(lexer.Content, lexer.Col)]

\* Lexer.Prefix
Prefix(lexer, prefix) ==
    \A i \in 1..Len(prefix) :
        /\ lexer.Col + i <= Len(lexer.Content)
        /\ lexer.Content[lexer.Col + i] = prefix[i]

\* Lexer.Loc
LexerLoc(lexer) == Loc(lexer.Row, lexer.Col)

HexDigitValue(x) ==
    IF x \in 48..57 THEN x - 48
    ELSE IF x \in 97..102 THEN x - 97 + 10
    ELSE IF x \in 65..70 THEN x - 65 + 10
    ELSE -1

RECURSIVE ChopHexFrom(_, _, _)
ChopHexFrom(lexer, i, result) ==
    IF i >= 2 THEN [lexer |-> lexer, result |-> result, err |-> Nil]
    ELSE IF lexer.Col >= Len(lexer.Content)
    THEN [lexer |-> lexer, result |-> result,
          err |-> DiagErr(LexerLoc(lexer),
                    "Unfinished hexadecimal value of a byte. Expected 2 hex digits, but got %d.",
                    <<i>>, <<>>)]
    ELSE LET x == lexer.Content[lexer.Col + 1]
         IN  IF HexDigitValue(x) >= 0
             THEN ChopHexFrom([lexer EXCEPT !.Col = lexer.Col + 1], i + 1,
                              result * 16 + HexDigitValue(x))
             ELSE [lexer |-> lexer, result |-> result,
                   err |-> DiagErr(LexerLoc(lexer),
                             "Expected hex digit, but got %c", <<x>>, <<>>)]

\* Lexer.ChopHexByteValue
ChopHexByteValue(lexer) == ChopHexFrom(lexer, 0, 0)

RECURSIVE ChopStrLitLoop(_, _, _)
\* The loop of ChopStrLit; ends at the closing quote or at the end of the line.
ChopStrLitLoop(lexer, quote, lit) ==
    LET n  == Len(lexer.Content)
        at(l) == l.Content[l.Col + 1]
        adv(l, k) == [l EXCEPT !.Col = l.Col + k]
    IN
    IF lexer.Col >= n THEN [lexer |-> lexer, lit |-> lit, err |-> Nil]
    ELSE IF at(lexer) = 92
    THEN LET l1 == adv(lexer, 1)
         IN  IF l1.Col >= n
             THEN [lexer |-> l1, lit |-> lit,
                   err |-> DiagErr(LexerLoc(l1), "Unfinished escape sequence", <<>>, <<>>)]
             ELSE IF at(l1) = 48  THEN ChopStrLitLoop(adv(l1, 1), quote, Append(lit, 0))
             ELSE IF at(l1) = 110 THEN ChopStrLitLoop(adv(l1, 1), quote, Append(lit, 10))
             ELSE IF at(l1) = 114 THEN ChopStrLitLoop(adv(l1, 1), quote, Append(lit, 13))
             ELSE IF at(l1) = 92  THEN ChopStrLitLoop(adv(l1, 1), quote, Append(lit, 92))
             ELSE IF at(l1) = 120
             THEN LET h == ChopHexByteValue(adv(l1, 1))
                  IN  IF h.err # Nil
                      THEN [lexer |-> h.lexer, lit |-> lit, err |-> h.err]
                      ELSE ChopStrLitLoop(h.lexer, quote, Append(lit, h.result))
             ELSE IF at(l1) = quote
             THEN ChopStrLitLoop(adv(l1, 1), quote, Append(lit, quote))
             ELSE [lexer |-> l1, lit |-> lit,
                   err |-> DiagErr(LexerLoc(l1),
                             "Unknown escape sequence starting with %c", <<at(l1)>>, <<>>)]
    ELSE IF at(lexer) = quote THEN [lexer |-> lexer, lit |-> lit, err |-> Nil]
    ELSE ChopStrLitLoop(adv(lexer, 1), quote, Append(lit, at(lexer)))

\* Lexer.ChopStrLit after its loop: r is the state the loop ended in.
ChopStrLitClose(r, lexer, quote, begin) ==
    IF r.err # Nil THEN r
    ELSE IF r.lexer.Col >= Len(lexer.Content) \/ lexer.Content[r.lexer.Col + 1] # quote
    THEN [lexer |-> r.lexer, lit |-> r.lit,
          err |-> DiagErr(Loc(lexer.Row, begin),
                    "Expected %c at the end of this string literal",
                    <<quote>>, <<>>)]
    ELSE [lexer |-> [r.lexer EXCEPT !.Col = r.lexer.Col + 1],
          lit |-> r.lit, err |-> Nil]

\* Lexer.ChopStrLit
ChopStrLit(lexer) ==
    IF lexer.Col >= Len(lexer.Content)
    THEN [lexer |-> lexer, lit |-> <<>>, err |-> Nil]
    ELSE ChopStrLitClose(
            ChopStrLitLoop([lexer EXCEPT !.Col = lexer.Col + 1],
                           lexer.Content[lexer.Col + 1], <<>>),
            lexer, lexer.Content[lexer.Col + 1], lexer.Col + 1)

IsSymbolStart(ch) == IsLetter(ch) \/ ch = 45 \/ ch = 95

IsSymbol(ch) == IsLetter(ch) \/ IsNumber(ch) \/ ch = 45 \/ ch = 95

RECURSIVE ChopNumberLoop(_, _)
\* The digit loop of ChopToken: the lexer and the number after the run of
\* digits.
ChopNumberLoop(lexer, number) ==
    IF lexer.Col < Len(lexer.Content) /\ IsNumber(lexer.Content[lexer.Col + 1])
    THEN ChopNumberLoop([lexer EXCEPT !.Col = lexer.Col + 1],
                        UintMulAdd(number, 10, lexer.Content[lexer.Col + 1] - 48))
    ELSE [lexer |-> lexer, number |-> number]

\* The number branch of ChopToken after its loop.
ChopNumber(r, begin, loc) ==
    [lexer |-> r.lexer,
     token |-> [Kind |-> "TokenNumber",
                Text |-> SubSeq(r.lexer.Content, begin + 1, r.lexer.Col),
                Number |-> r.number, Loc |-> loc],
     err |-> Nil]

RECURSIVE SymbolEnd(_, _)
\* The column after the run of symbol characters starting at col.
SymbolEnd(content, col) ==
    IF col < Len(content) /\ IsSymbol(content[col + 1])
    THEN SymbolEnd(content, col + 1)
    ELSE col

\* The bare symbol branch of ChopToken after its loop has reached column end.
ChopSymbol(lexer, end, loc) ==
    [lexer |-> [lexer EXCEPT !.Col = end],
     token |-> [Kind |-> "TokenSymbol",
                Text |-> SubSeq(lexer.Content, lexer.Col + 1, end),
                Number |-> UintOf(0), Loc |-> loc],
     err |-> Nil]

RECURSIVE ChopAngleLoop(_)
\* The loop over the characters between < and >.
ChopAngleLoop(lexer) ==
    IF lexer.Col < Len(lexer.Content) /\ lexer.Content[lexer.Col + 1] # 62
    THEN IF ~IsSymbol(lexer.Content[lexer.Col + 1])
         THEN [lexer |-> lexer,
               err |-> DiagErr(LexerLoc(lexer),
                         "Unexpected character in symbol name %c",
                         <<lexer.Content[lexer.Col + 1]>>, <<>>)]
         ELSE ChopAngleLoop([lexer EXCEPT !.Col = lexer.Col + 1])
    ELSE [lexer |-> lexer, err |-> Nil]

\* The <symbol> branch of ChopToken after its loop.
ChopAngle(r, begin, loc) ==
    IF r.err # Nil
    THEN [lexer |-> r.lexer, token |-> ZeroToken(loc), err |-> r.err]
    ELSE IF r.lexer.Col >= Len(r.lexer.Content)
    THEN [lexer |-> r.lexer, token |-> ZeroToken(loc),
          err |-> DiagErr(LexerLoc(r.lexer),
                    "Expected > at the end of the symbol name", <<>>, <<>>)]
    ELSE [lexer |-> [r.lexer EXCEPT !.Col = r.lexer.Col + 1],
          token |-> [Kind |-> "TokenSymbol",
                     Text |-> SubSeq(r.lexer.Content, begin + 1, r.lexer.Col),
                     Number |-> UintOf(0), Loc |-> loc],
          err |-> Nil]

\* The string literal branch of ChopToken after ChopStrLit.
ChopString(r, loc) ==
    IF r.err # Nil
    THEN [lexer |-> r.lexer, token |-> ZeroToken(loc), err |-> r.err]
    ELSE [lexer |-> r.lexer,
          token |-> [Kind |-> "TokenString", Text |-> r.lit,
                     Number |-> UintOf(0), Loc |-> loc],
          err |-> Nil]

RECURSIVE ChopLiteralFrom(_, _, _)
\* The scan of LiteralTokens from entry i on.
ChopLiteralFrom(lexer, loc, i) ==
    IF i > Len(LiteralTokens)
    THEN [lexer |-> lexer, token |-> ZeroToken(loc),
          err |-> DiagErr(LexerLoc(lexer), "Invalid token", <<>>, <<>>)]
    ELSE IF Prefix(lexer, LiteralTokens[i].Text)
    THEN [lexer |-> [lexer EXCEPT !.Col = lexer.Col + Len(LiteralTokens[i].Text)],
          token |-> [Kind |-> LiteralTokens[i].Kind, Text |-> LiteralTokens[i].Text,
                     Number |-> UintOf(0), Loc |-> loc],
          err |-> Nil]
    ELSE ChopLiteralFrom(lexer, loc, i + 1)

\* The value range branch of ChopToken after the upper bound has been chopped.
ChopValueRangeUpper(up, lower, loc) ==
    IF up.err # Nil
    THEN [lexer |-> up.lexer, token |-> ZeroToken(loc), err |-> up.err]
    ELSE [lexer |-> up.lexer,
          token |-> [Kind |-> "TokenValueRange", Text |-> <<lower, up.result>>,
                     Number |-> UintOf(0), Loc |-> loc],
          err |-> Nil]

\* The value range branch of ChopToken after the lower bound has been chopped.
ChopValueRangeDash(lo, loc) ==
    IF lo.err # Nil
    THEN [lexer |-> lo.lexer, token |-> ZeroToken(loc), err |-> lo.err]
    ELSE IF ~Prefix(lo.lexer, <<45>>)
    THEN [lexer |-> lo.lexer, token |-> ZeroToken(loc),
          err |-> DiagErr(LexerLoc(lo.lexer),
                    "Expected dash between lower and upper bounds of value range token",
                    <<>>, <<>>)]
    ELSE ChopValueRangeUpper(
            ChopHexByteValue([lo.lexer EXCEPT !.Col = lo.lexer.Col + 1]),
            lo.result, loc)

\* The value range branch of ChopToken, entered at the %x prefix.
ChopValueRange(lexer, loc) ==
    ChopValueRangeDash(ChopHexByteValue([lexer EXCEPT !.Col = lexer.Col + 2]), loc)

\* ChopToken: a comment runs to the end of the line.
SkipComment(lexer) ==
    IF Prefix(lexer, <<47, 47>>) \/ Prefix(lexer, <<59>>)
    THEN [lexer EXCEPT !.Col = Len(lexer.Content)]
    ELSE lexer

\* ChopToken from the start of a token: ch is the character there.
ChopTokenOf(lexer, ch, loc) ==
    IF IsNumber(ch)
    THEN ChopNumber(ChopNumberLoop(lexer, UintOf(0)), lexer.Col, loc)
    ELSE IF IsSymbolStart(ch)
    THEN ChopSymbol(lexer, SymbolEnd(lexer.Content, lexer.Col), loc)
    ELSE IF ch = 60
    THEN ChopAngle(ChopAngleLoop([lexer EXCEPT !.Col = lexer.Col + 1]),
                   lexer.Col + 1, loc)
    ELSE IF ch = 34 \/ ch = 39 THEN ChopString(ChopStrLit(lexer), loc)
    ELSE IF Prefix(lexer, <<37, 120>>) THEN ChopValueRange(lexer, loc)
    ELSE ChopLiteralFrom(lexer, loc, 1)

\* ChopToken after the blanks and a comment have been skipped.
ChopTokenAt(lexer) ==
    IF lexer.Col >= Len(lexer.Content)
    THEN [lexer |-> lexer, token |-> ZeroToken(LexerLoc(lexer)), err |-> Nil]
    ELSE ChopTokenOf(lexer, lexer.Content[lexer.Col + 1], LexerLoc(lexer))

\* Lexer.ChopToken: [lexer, token, err].
ChopToken(lexer) == ChopTokenAt(SkipComment(Trim(lexer)))

\* A faulty variant of PeekFill: the lexer is left at the start of the token
\* it has put into the buffer.
PeekFillRewinding(r) ==
    IF r.err # Nil THEN r
    ELSE [lexer |-> [r.lexer EXCEPT !.PeekFull = TRUE, !.PeekBuf = r.token,
                                    !.Col = r.token.Loc.Col],
          token |-> r.token, err |-> Nil]

\* Lexer.Peek with an empty buffer, after its ChopToken.
PeekFill(r) ==
    IF r.err # Nil THEN r
    ELSE [lexer |-> [r.lexer EXCEPT !.PeekFull = TRUE, !.PeekBuf = r.token],
          token |-> r.token, err |-> Nil]

\* Lexer.Peek: [lexer, token, err].
Peek(lexer) ==
    IF ~lexer.PeekFull THEN PeekFill(ChopToken(lexer))
    ELSE [lexer |-> lexer, token |-> lexer.PeekBuf, err |-> Nil]

\* Lexer.Next: [lexer, token, err].
LexNext(lexer) ==
    IF lexer.PeekFull
    THEN [lexer |-> [lexer EXCEPT !.PeekFull = FALSE],
          token |-> lexer.PeekBuf, err |-> Nil]
    ELSE ChopToken(lexer)

(***************************************************************************)
(* Expressions and the parser                                              *)
(***************************************************************************)

ExprSymbol(loc, name) == [Type |-> "ExprSymbol", Loc |-> loc, Name |-> name]

ExprString(loc, text) == [Type |-> "ExprString", Loc |-> loc, Text |-> text]

ExprAlternation(loc, variants) ==
    [Type |-> "ExprAlternation", Loc |-> loc, Variants |-> variants]

ExprConcat(loc, elements) ==
    [Type |-> "ExprConcat", Loc |-> loc, Elements |-> elements]

ExprRepetition(loc, body, lower, upper) ==
    [Type |-> "ExprRepetition", Loc |-> loc, Body |-> body,
     Lower |-> lower, Upper |-> upper]

ExprRange(loc, lower, upper) ==
    [Type |-> "ExprRange", Loc |-> loc, Lower |-> lower, Upper |-> upper]

\* The nil Expr a parse function returns beside an error.
NilExpr == [Type |-> "nil"]

ParseFail(lexer, err) == [lexer |-> lexer, expr |-> NilExpr, err |-> err]

ParseOk(lexer, expr) == [lexer |-> lexer, expr |-> expr, err |-> Nil]

\* ExpectToken after its lexer.Next(): n is the result of that call.
ExpectTokenKind(n, kind) ==
    IF n.err # Nil THEN n
    ELSE IF n.token.Kind # kind
    THEN [lexer |-> n.lexer, token |-> n.token,
          err |-> DiagErr(n.token.Loc, "Expected %s but got %s",
                          <<>>, <<kind, n.token.Kind>>)]
    ELSE n

\* ExpectToken: [lexer, token, err].
ExpectToken(lexer, kind) == ExpectTokenKind(LexNext(lexer), kind)

MaxUnspecifiedUpperRepetitionBound == 20

IsPrimaryStart(kind) ==
    kind \in {"TokenSymbol", "TokenString", "TokenBracketOpen", "TokenCurlyOpen",
              "TokenParenOpen", "TokenNumber", "TokenAsterisk", "TokenValueRange"}

RECURSIVE ParseExpr(_)
RECURSIVE ParsePrimaryExpr(_)

\* ParsePrimaryExpr, the expression a group yields once its closing token c
\* has been expected: the body itself for parentheses, a repetition of it
\* for curly and square brackets.
ParseGroupExpr(c, body, token, close) ==
    IF c.err # Nil THEN ParseFail(c.lexer, c.err)
    ELSE IF close = "TokenParenClose" THEN ParseOk(c.lexer, body)
    ELSE IF close = "TokenCurlyClose"
    THEN ParseOk(c.lexer,
           ExprRepetition(token.Loc, body, UintOf(0),
                          UintOf(MaxUnspecifiedUpperRepetitionBound)))
    ELSE ParseOk(c.lexer, ExprRepetition(token.Loc, body, UintOf(0), UintOf(1)))

\* ParsePrimaryExpr, a group after the parse b of its inner expression.
ParseGroupClose(b, token, close) ==
    IF b.err # Nil THEN ParseFail(b.lexer, b.err)
    ELSE ParseGroupExpr(ExpectToken(b.lexer, close), b.expr, token, close)

\* ParsePrimaryExpr, cases TokenParenOpen, TokenCurlyOpen and TokenBracketOpen:
\* the inner expression up to the token of kind close.
ParseGroup(lexer, token, close) == ParseGroupClose(ParseExpr(lexer), token, close)

\* ParsePrimaryExpr, case TokenString, after the upper bound of a range has
\* been expected.
ParseRangeUpper(upper, token, ellipsis) ==
    IF upper.err # Nil THEN ParseFail(upper.lexer, upper.err)
    ELSE IF Len(upper.token.Text) # 1
    THEN ParseFail(upper.lexer,
            DiagErr(upper.token.Loc,
              "The upper boundary of the range is expected to be 1 symbol string. Got %d instead.",
              <<Len(upper.token.Text)>>, <<>>))
    ELSE ParseOk(upper.lexer,
            ExprRange(ellipsis.Loc, token.Text[1], upper.token.Text[1]))

\* ParsePrimaryExpr, case TokenString, after the peek for an ellipsis.
ParseStringEllipsis(ellipsis, token) ==
    IF ellipsis.err # Nil THEN ParseFail(ellipsis.lexer, ellipsis.err)
    ELSE IF ellipsis.token.Kind # "TokenEllipsis"
    THEN ParseOk(ellipsis.lexer, ExprString(token.Loc, token.Text))
    ELSE IF Len(token.Text) # 1
    THEN ParseFail(ellipsis.lexer,
            DiagErr(token.Loc,
              "The lower boundary of the range is expected to be 1 symbol string. Got %d instead.",
              <<Len(token.Text)>>, <<>>))
    ELSE ParseRangeUpper(
            ExpectToken([ellipsis.lexer EXCEPT !.PeekFull = FALSE], "TokenString"),
            token, ellipsis.token)

\* ParsePrimaryExpr, case TokenString.
ParseStringOrRange(lexer, token) == ParseStringEllipsis(Peek(lexer), token)

\* A repetition of the parsed primary expression body.
ParseRepetitionBody(body, loc, lower, upper) ==
    IF body.err # Nil THEN ParseFail(body.lexer, body.err)
    ELSE ParseOk(body.lexer, ExprRepetition(loc, body.expr, lower, upper))

\* A repetition of the primary expression parsed next.
ParseRepetitionOf(lexer, loc, lower, upper) ==
    ParseRepetitionBody(ParsePrimaryExpr(lexer), loc, lower, upper)

\* ParsePrimaryExpr, case TokenAsterisk, after the peek for the upper bound.
\* The peeked number stays in the peek buffer: the body is parsed from it on.
ParseAsteriskUpper(upper, token) ==
    IF upper.err # Nil THEN ParseFail(upper.lexer, upper.err)
    ELSE ParseRepetitionOf(upper.lexer, token.Loc, UintOf(0),
            IF upper.token.Kind # "TokenNumber"
            THEN UintOf(MaxUnspecifiedUpperRepetitionBound)
            ELSE upper.token.Number)

\* ParsePrimaryExpr, case TokenAsterisk.
ParseAsterisk(lexer, token) == ParseAsteriskUpper(Peek(lexer), token)

\* ParsePrimaryExpr, case TokenNumber, after the peek for the upper bound.
\* The error of that Peek is overwritten by the parse of the body, and the
\* peeked number stays in the peek buffer.
ParseNumberUpper(upper, token, asterisk) ==
    ParseRepetitionOf(upper.lexer, asterisk.Loc, token.Number,
        IF upper.token.Kind # "TokenNumber"
        THEN UintOf(MaxUnspecifiedUpperRepetitionBound)
        ELSE upper.token.Number)

\* ParsePrimaryExpr, case TokenNumber, after the peek for an asterisk.
ParseNumberAsterisk(asterisk, token) ==
    IF asterisk.err # Nil THEN ParseFail(asterisk.lexer, asterisk.err)
    ELSE IF asterisk.token.Kind # "TokenAsterisk"
    THEN ParseRepetitionOf(asterisk.lexer, token.Loc, token.Number, token.Number)
    ELSE ParseNumberUpper(Peek([asterisk.lexer EXCEPT !.PeekFull = FALSE]),
                          token, asterisk.token)

\* ParsePrimaryExpr, case TokenNumber.
ParseNumber(lexer, token) == ParseNumberAsterisk(Peek(lexer), token)

\* ParsePrimaryExpr, the switch on the kind of the token read.
ParsePrimaryCase(lexer, token) ==
    IF token.Kind \in {"TokenParenOpen", "TokenCurlyOpen", "TokenBracketOpen"}
    THEN ParseGroup(lexer, token,
            IF token.Kind = "TokenParenOpen" THEN "TokenParenClose"
            ELSE IF token.Kind = "TokenCurlyOpen" THEN "TokenCurlyClose"
            ELSE "TokenBracketClose")
    ELSE IF token.Kind = "TokenSymbol"
    THEN ParseOk(lexer, ExprSymbol(token.Loc, token.Text))
    ELSE IF token.Kind = "TokenValueRange"
    THEN IF Len(token.Text) # 2
         THEN ParseFail(lexer,
                 DiagErr(token.Loc,
                   "Value range is expected to have 2 bounds but got %d",
                   <<Len(token.Text)>>, <<>>))
         ELSE ParseOk(lexer, ExprRange(token.Loc, token.Text[1], token.Text[2]))
    ELSE IF token.Kind = "TokenString" THEN ParseStringOrRange(lexer, token)
    ELSE IF token.Kind = "TokenAsterisk" THEN ParseAsterisk(lexer, token)
    ELSE IF token.Kind = "TokenNumber" THEN ParseNumber(lexer, token)
    ELSE ParseFail(lexer,
            DiagErr(token.Loc, "Expected start of an expression, but got %s",
                    <<>>, <<token.Kind>>))

\* ParsePrimaryExpr after its lexer.Next(): n is the result of that call.
ParsePrimaryToken(n) ==
    IF n.err # Nil THEN ParseFail(n.lexer, n.err)
    ELSE ParsePrimaryCase(n.lexer, n.token)

\* ParsePrimaryExpr: [lexer, expr, err].
ParsePrimaryExpr(lexer) == ParsePrimaryToken(LexNext(lexer))

RECURSIVE ParseConcatLoop(_, _)

\* The loop of ParseConcatExpr after the parse of one more child.
ParseConcatChild(child, concat) ==
    IF child.err # Nil THEN ParseFail(child.lexer, child.err)
    ELSE ParseConcatLoop(Peek(child.lexer),
            ExprConcat(concat.Loc, Append(concat.Elements, child.expr)))

\* The loop of ParseConcatExpr, entered with the result pk of the peek.
ParseConcatLoop(pk, concat) ==
    IF pk.err = Nil /\ IsPrimaryStart(pk.token.Kind)
    THEN ParseConcatChild(ParsePrimaryExpr(pk.lexer), concat)
    ELSE [lexer |-> pk.lexer, expr |-> concat, err |-> pk.err]

\* A faulty variant of ParseConcatPeek: a single primary expression is wrapped
\* into a concatenation of one element.
ParseConcatPeekWrapping(pk, primary) ==
    IF pk.err # Nil THEN ParseFail(pk.lexer, pk.err)
    ELSE ParseConcatLoop(pk, ExprConcat(primary.Loc, <<primary>>))

\* ParseConcatExpr after the peek that follows the first primary expression.
ParseConcatPeek(pk, primary) ==
    IF pk.err # Nil THEN ParseFail(pk.lexer, pk.err)
    ELSE IF ~IsPrimaryStart(pk.token.Kind) THEN ParseOk(pk.lexer, primary)
    ELSE ParseConcatLoop(pk, ExprConcat(primary.Loc, <<primary>>))

\* ParseConcatExpr after the parse of the first primary expression.
ParseConcatPrimary(primary) ==
    IF primary.err # Nil THEN primary
    ELSE ParseConcatPeek(Peek(primary.lexer), primary.expr)

\* ParseConcatExpr: [lexer, expr, err].
ParseConcatExpr(lexer) == ParseConcatPrimary(ParsePrimaryExpr(lexer))

RECURSIVE ParseAltLoop(_, _)

\* The loop of ParseAltExpr after the parse of one more variant.
ParseAltChild(child, alt) ==
    IF child.err # Nil THEN ParseFail(child.lexer, child.err)
    ELSE ParseAltLoop(Peek(child.lexer),
            ExprAlternation(alt.Loc, Append(alt.Variants, child.expr)))

\* ParseAltBar with a variant that ends at its first primary expression.
ParseAltBarPrimary(bar, alt) ==
    IF bar.err # Nil THEN ParseFail(bar.lexer, bar.err)
    ELSE ParseAltChild(ParsePrimaryExpr(bar.lexer), alt)

\* The loop of ParseAltExpr after the alternation token has been expected.
ParseAltBar(bar, alt) ==
    IF bar.err # Nil THEN ParseFail(bar.lexer, bar.err)
    ELSE ParseAltChild(ParseConcatExpr(bar.lexer), alt)

\* The loop of ParseAltExpr, entered with the result pk of the peek.
ParseAltLoop(pk, alt) ==
    IF pk.err = Nil /\ pk.token.Kind = "TokenAlternation"
    THEN ParseAltBar(ExpectToken(pk.lexer, "TokenAlternation"), alt)
    ELSE [lexer |-> pk.lexer, expr |-> alt, err |-> pk.err]

\* ParseAltExpr after the peek that follows the first concatenation.
ParseAltPeek(pk, concat) ==
    IF pk.err # Nil THEN ParseFail(pk.lexer, pk.err)
    ELSE IF pk.token.Kind # "TokenAlternation" THEN ParseOk(pk.lexer, concat)
    ELSE ParseAltLoop(pk, ExprAlternation(concat.Loc, <<concat>>))

\* ParseAltExpr after the parse of the first concatenation.
ParseAltConcat(concat) ==
    IF concat.err # Nil THEN concat
    ELSE ParseAltPeek(Peek(concat.lexer), concat.expr)

\* ParseAltExpr: [lexer, expr, err].
ParseAltExpr(lexer) == ParseAltConcat(ParseConcatExpr(lexer))

ParseExpr(lexer) == ParseAltExpr(lexer)

(***************************************************************************)
(* Generator                                                               *)
(*                                                                         *)
(* GenerateRandomMessage is modelled by the set of its possible outcomes  *)
(* over all draws of the random source.  An outcome records the returned   *)
(* message and error, whether the call ended in a run-time panic, and two  *)
(* logs: Reps, one entry per Repetition node whose loop ran (its bounds    *)
(* and the number of body expansions started), and Calls, the nodes        *)
(* GenerateRandomMessage was called on, in call order.                     *)
(***************************************************************************)

\* Bound on the nesting of Symbol expansions followed by one generation.
MaxDepth == 3

\* rand.Int31n(n) panics unless n > 0.
Int31nPanics(n) == n <= 0

\* The values rand.Int31n(n) can return.
Int31n(n) == 0..(n - 1)

Outcome(status, message, err, reps, calls) ==
    [Status |-> status, Message |-> message, Err |-> err,
     Reps |-> reps, Calls |-> calls, Count |-> 0]

\* A Calls entry: the node called on and what the call returned.
Call(expr, status, message) ==
    [Loc |-> expr.Loc, Type |-> expr.Type, Status |-> status, Message |-> message]

\* A faulty variant of RepetitionInverted: the guard left out.
RepetitionInvertedUnguarded(expr) == FALSE

\* ExprRepetition: the guard `expr.Lower > expr.Upper`.
RepetitionInverted(expr) == UintLess(expr.Upper, expr.Lower)

\* ExprRange: the guard `expr.Lower > expr.Upper`.
RangeInverted(expr) == expr.Lower > expr.Upper

\* int32(expr.Upper - expr.Lower + 1), the argument of Int31n in ExprRepetition.
RepetitionSpan(expr) == Int32OfUint(UintInc(UintSub(expr.Upper, expr.Lower)))

\* int(int32(expr.Lower) + draw), the loop bound n in ExprRepetition.
RepetitionCount(expr, draw) == Int32Add(Int32OfUint(expr.Lower), draw)

\* A faulty variant of RangeSpan: one value too many.
RangeSpanOffByOne(expr) == expr.Upper - expr.Lower + 2

\* expr.Upper - expr.Lower + 1, the argument of Int31n in ExprRange.
RangeSpan(expr) == expr.Upper - expr.Lower + 1

\* A faulty variant of RangeRune: the draw is not added.
RangeRuneLowest(expr, draw) == expr.Lower

\* expr.Lower + draw, the rune ExprRange appends.
RangeRune(expr, draw) == expr.Lower + draw

RECURSIVE GenerateRandomMessage(_, _, _)

RECURSIVE GenerateEach(_, _, _, _)
\* A faulty variant of GenerateEach: the loop goes on after an error, which
\* is returned at the end.
GenerateEachThrough(grammar, bodies, from, depth) ==
    IF from > Len(bodies) THEN {Outcome("ok", <<>>, Nil, <<>>, <<>>)}
    ELSE UNION {
           {[Outcome(IF first.Status # "ok" THEN first.Status ELSE rest.Status,
                     first.Message \o rest.Message,
                     IF first.Status # "ok" THEN first.Err ELSE rest.Err,
                     first.Reps \o rest.Reps, first.Calls \o rest.Calls)
               EXCEPT !.Count = rest.Count + 1]
            : rest \in GenerateEach(grammar, bodies, from + 1, depth)}
           : first \in GenerateRandomMessage(grammar, bodies[from], depth) }

\* The loops of ExprConcat and ExprRepetition: expand bodies[i] for
\* i = from..Len(bodies) in order, appending each result, and return at the
\* first error.
GenerateEach(grammar, bodies, from, depth) ==
    IF from > Len(bodies) THEN {Outcome("ok", <<>>, Nil, <<>>, <<>>)}
    ELSE UNION {
           IF first.Status # "ok"
           THEN {[Outcome(first.Status, <<>>, first.Err, first.Reps, first.Calls)
                    EXCEPT !.Count = 1]}
           ELSE {[Outcome(rest.Status, first.Message \o rest.Message, rest.Err,
                          first.Reps \o rest.Reps, first.Calls \o rest.Calls)
                    EXCEPT !.Count = rest.Count + 1]
                 : rest \in GenerateEach(grammar, bodies, from + 1, depth)}
           : first \in GenerateRandomMessage(grammar, bodies[from], depth) }

\* GenerateRandomMessage(grammar, expr) with at most depth nested Symbol
\* expansions: the set of its outcomes.
GenerateRandomMessage(grammar, expr, depth) ==
    LET Called(o) ==
            [o EXCEPT !.Calls = <<Call(expr, o.Status, o.Message)>> \o o.Calls,
                      !.Count = 0]
        Leaf(status, message, err) ==
            Outcome(status, message, err, <<>>, <<Call(expr, status, message)>>)
    IN
    IF expr.Type = "ExprString"
    THEN {Leaf("ok", expr.Text, Nil)}
    ELSE IF expr.Type = "ExprSymbol"
    THEN IF expr.Name \notin DOMAIN grammar
         THEN {Leaf("err", <<>>,
                    DiagErr(expr.Loc, "Symbol <%s> is not defined", expr.Name, <<>>))}
         ELSE IF depth = 0 THEN {}
         ELSE {Called(o) :
                 o \in GenerateRandomMessage(grammar, grammar[expr.Name].Body, depth - 1)}
    ELSE IF expr.Type = "ExprConcat"
    THEN {Called(o) : o \in GenerateEach(grammar, expr.Elements, 1, depth)}
    ELSE IF expr.Type = "ExprAlternation"
    THEN IF Int31nPanics(Len(expr.Variants))
         THEN {Leaf("panic", <<>>, Nil)}
         ELSE UNION {
                {Called(o) :
                   o \in GenerateRandomMessage(grammar, expr.Variants[i + 1], depth)}
                : i \in Int31n(Len(expr.Variants)) }
    ELSE IF expr.Type = "ExprRepetition"
    THEN IF RepetitionInverted(expr)
         THEN {Leaf("err", <<>>,
                    DiagErr(expr.Loc,
                      "Upper bound of the repetition is lower than the lower one.",
                      <<>>, <<>>))}
         ELSE IF Int31nPanics(RepetitionSpan(expr))
         THEN {Leaf("panic", <<>>, Nil)}
         ELSE UNION {
                {[Called(o) EXCEPT
                    !.Reps = <<[Loc |-> expr.Loc, Lower |-> expr.Lower,
                                Upper |-> expr.Upper, Count |-> o.Count]>>
                             \o o.Reps]
                 : o \in GenerateEach(grammar,
                            [i \in 1..RepetitionCount(expr, draw) |-> expr.Body],
                            1, depth)}
                : draw \in Int31n(RepetitionSpan(expr)) }
    ELSE IF expr.Type = "ExprRange"
    THEN IF RangeInverted(expr)
         THEN {Leaf("err", <<>>,
                    DiagErr(expr.Loc,
                      "Upper bound of the range is lower than the lower one.",
                      <<>>, <<>>))}
         ELSE IF Int31nPanics(RangeSpan(expr))
         THEN {Leaf("panic", <<>>, Nil)}
         ELSE {Leaf("ok", <<RangeRune(expr, draw)>>, Nil)
               : draw \in Int31n(RangeSpan(expr))}
    ELSE {Outcome("panic", <<>>, Nil, <<>>, <<>>)}

(***************************************************************************)
(* Validators                                                              *)
(***************************************************************************)

RECURSIVE VerifyThatAllSymbolsDefinedInExpr(_, _)

RECURSIVE VerifyEachUntilFailure(_, _, _)
\* A faulty variant of VerifyEach: the loop ends at the first child that
\* fails.
VerifyEachUntilFailure(grammar, exprs, i) ==
    IF i > Len(exprs) THEN [ok |-> TRUE, reports |-> <<>>]
    ELSE IF ~VerifyThatAllSymbolsDefinedInExpr(grammar, exprs[i]).ok
    THEN VerifyThatAllSymbolsDefinedInExpr(grammar, exprs[i])
    ELSE VerifyEachUntilFailure(grammar, exprs, i + 1)

RECURSIVE VerifyEach(_, _, _)
\* The loops over Variants and Elements: every child is verified, none skipped.
VerifyEach(grammar, exprs, i) ==
    IF i > Len(exprs) THEN [ok |-> TRUE, reports |-> <<>>]
    ELSE LET first == VerifyThatAllSymbolsDefinedInExpr(grammar, exprs[i])
             rest  == VerifyEach(grammar, exprs, i + 1)
         IN  [ok |-> first.ok /\ rest.ok, reports |-> first.reports \o rest.reports]

\* VerifyThatAllSymbolsDefinedInExpr: [ok, reports], reports being the lines
\* written to the error stream.
VerifyThatAllSymbolsDefinedInExpr(grammar, expr) ==
    IF expr.Type = "ExprSymbol"
    THEN IF expr.Name \notin DOMAIN grammar
         THEN [ok |-> FALSE,
               reports |-> <<DiagErr(expr.Loc, "Symbol %s is not defined",
                                     expr.Name, <<>>)>>]
         ELSE [ok |-> TRUE, reports |-> <<>>]
    ELSE IF expr.Type = "ExprAlternation" THEN VerifyEach(grammar, expr.Variants, 1)
    ELSE IF expr.Type = "ExprConcat" THEN VerifyEach(grammar, expr.Elements, 1)
    ELSE IF expr.Type = "ExprRepetition"
    THEN VerifyThatAllSymbolsDefinedInExpr(grammar, expr.Body)
    ELSE [ok |-> TRUE, reports |-> <<>>]

RECURSIVE VerifyRules(_, _, _)
VerifyRules(grammar, order, i) ==
    IF i > Len(order) THEN [ok |-> TRUE, reports |-> <<>>]
    ELSE LET first == VerifyThatAllSymbolsDefinedInExpr(grammar, grammar[order[i]].Body)
             rest  == VerifyRules(grammar, order, i + 1)
         IN  [ok |-> first.ok /\ rest.ok, reports |-> first.reports \o rest.reports]

\* VerifyThatAllSymbolsDefined, the map being ranged over in the given order.
VerifyThatAllSymbolsDefined(grammar, order) == VerifyRules(grammar, order, 1)

RECURSIVE WalkSymbolsInExpr(_, _, _)

RECURSIVE WalkEach(_, _, _, _)
\* The loops over Variants and Elements: return at the first error.
WalkEach(grammar, exprs, i, visited) ==
    IF i > Len(exprs) THEN [visited |-> visited, err |-> Nil]
    ELSE LET first == WalkSymbolsInExpr(grammar, exprs[i], visited)
         IN  IF first.err # Nil THEN first
             ELSE WalkEach(grammar, exprs, i + 1, first.visited)

\* WalkSymbolsInExpr: [visited, err], visited being the set of names marked.
WalkSymbolsInExpr(grammar, expr, visited) ==
    IF expr.Type = "ExprSymbol"
    THEN IF expr.Name \notin visited
         THEN IF expr.Name \notin DOMAIN grammar
              THEN [visited |-> visited \cup {expr.Name},
                    err |-> DiagErr(expr.Loc, "Symbol <%s> is not defined",
                                    expr.Name, <<>>)]
              ELSE WalkSymbolsInExpr(grammar, grammar[expr.Name].Body,
                                     visited \cup {expr.Name})
         ELSE [visited |-> visited, err |-> Nil]
    ELSE IF expr.Type = "ExprAlternation"
    THEN WalkEach(grammar, expr.Variants, 1, visited)
    ELSE IF expr.Type = "ExprConcat"
    THEN WalkEach(grammar, expr.Elements, 1, visited)
    ELSE IF expr.Type = "ExprRepetition"
    THEN WalkSymbolsInExpr(grammar, expr.Body, visited)
    ELSE [visited |-> visited, err |-> Nil]

\* The sequences that hold each element of set S once: the orders in which a
\* range over a map with key set S can run.
Orders(S) ==
    {o \in [1..Cardinality(S) -> S] : \A i, j \in 1..Cardinality(S) : o[i] = o[j] => i = j}

RECURSIVE SortedNames(_)
NameLess(a, b) ==
    \E k \in 1..(Len(a) + 1) :
        /\ \A j \in 1..(k - 1) : j <= Len(b) /\ a[j] = b[j]
        /\ k <= Len(b)
        /\ (k > Len(a) \/ a[k] < b[k])

\* sort.Strings over the names of S (byte order; the names are Latin-1 below 128
\* in the inputs, where byte order is code point order).
SortedNames(S) ==
    IF S = {} THEN <<>>
    ELSE LET least == CHOOSE a \in S : \A b \in S \ {a} : NameLess(a, b)
         IN  <<least>> \o SortedNames(S \ {least})

(***************************************************************************)
(* Textual form (String methods)                                           *)
(***************************************************************************)

\* unicode.IsGraphic on the Latin-1 code points.
IsGraphic(ch) == ch \in 32..126 \/ (ch \in 160..255 /\ ch # 173)

RECURSIVE DecimalOfNat(_)
\* The decimal digits of n >= 0 (%d).
DecimalOfNat(n) ==
    IF n < 10 THEN <<48 + n>> ELSE DecimalOfNat(n \div 10) \o <<48 + (n % 10)>>

RECURSIVE UintDivTenFrom(_, _, _)
\* Long division of x by ten from limb i down: [quot, rem].
UintDivTenFrom(x, i, rem) ==
    IF i = 0 THEN [quot |-> <<>>, rem |-> rem]
    ELSE LET cur  == rem * 65536 + x[i]
             rest == UintDivTenFrom(x, i - 1, cur % 10)
         IN  [quot |-> rest.quot \o <<cur \div 10>>, rem |-> rest.rem]

RECURSIVE DecimalOfUint(_)
\* The decimal digits of a uint (%d).
DecimalOfUint(x) ==
    LET d == UintDivTenFrom(x, UintLimbs, 0)
    IN  IF d.quot = UintOf(0) THEN <<48 + d.rem>>
        ELSE DecimalOfUint(d.quot) \o <<48 + d.rem>>

\* The first literal token of the given kind, as Rule.String and
\* ExprAlternation.String look it up.
FirstLiteralOfKind(kind) ==
    LET i == CHOOSE k \in 1..Len(LiteralTokens) :
                 /\ LiteralTokens[k].Kind = kind
                 /\ \A j \in 1..(k - 1) : LiteralTokens[j].Kind # kind
    IN  LiteralTokens[i].Text

RECURSIVE ExprStringText(_, _)
\* The loop of ExprString.String over Text[i..].  A double quote is written
\* as a lone backslash; a non-graphic rune goes through
\* Sprintf("\\x02x", r), a format without a verb.
ExprStringText(text, i) ==
    IF i > Len(text) THEN <<>>
    ELSE LET ch == text[i]
             this == IF ch = 10 THEN <<92, 110>>
                     ELSE IF ch = 13 THEN <<92, 114>>
                     ELSE IF ch = 92 THEN <<92, 92>>
                     ELSE IF ch = 34 THEN <<92>>
                     ELSE IF IsGraphic(ch) THEN <<ch>>
                     ELSE <<92, 120, 48, 50, 120>>
                          \o <<37, 33, 40, 69, 88, 84, 82, 65, 32, 105, 110, 116, 51, 50, 61>>
                          \o DecimalOfNat(ch) \o <<41>>
         IN  this \o ExprStringText(text, i + 1)

RECURSIVE ExprToString(_)

RECURSIVE JoinStrings(_, _, _)
\* The loops of ExprAlternation.String and ExprConcat.String.
JoinStrings(exprs, sep, i) ==
    IF i > Len(exprs) THEN [panic |-> FALSE, text |-> <<>>]
    ELSE LET first == ExprToString(exprs[i])
             rest  == JoinStrings(exprs, sep, i + 1)
         IN  IF first.panic THEN first
             ELSE IF rest.panic THEN rest
             ELSE [panic |-> FALSE,
                   text |-> (IF i > 1 THEN sep ELSE <<>>) \o first.text \o rest.text]

\* Expr.String(): [panic, text]; ExprRange.String panics.
ExprToString(expr) ==
    IF expr.Type = "ExprSymbol" THEN [panic |-> FALSE, text |-> expr.Name]
    ELSE IF expr.Type = "ExprString"
    THEN [panic |-> FALSE, text |-> <<34>> \o ExprStringText(expr.Text, 1) \o <<34>>]
    ELSE IF expr.Type = "ExprAlternation"
    THEN JoinStrings(expr.Variants,
                     <<32>> \o FirstLiteralOfKind("TokenAlternation") \o <<32>>, 1)
    ELSE IF expr.Type = "ExprConcat"
    THEN JoinStrings(expr.Elements, <<32>>, 1)
    ELSE IF expr.Type = "ExprRepetition"
    THEN LET body == ExprToString(expr.Body)
         IN  IF body.panic THEN body
             ELSE [panic |-> FALSE,
                   text |-> DecimalOfUint(expr.Lower) \o <<42>>
                            \o DecimalOfUint(expr.Upper) \o <<40>> \o body.text \o <<41>>]
    ELSE [panic |-> TRUE, text |-> <<>>]

\* Rule.String(): [panic, text].
RuleToString(rule) ==
    LET body == ExprToString(rule.Body)
    IN  IF body.panic THEN body
        ELSE [panic |-> FALSE,
              text |-> rule.Head.Text \o <<32>> \o FirstLiteralOfKind("TokenDefinition")
                       \o <<32>> \o body.text]

(***************************************************************************)
(* Driver (main)                                                           *)
(***************************************************************************)

VARIABLES
    lines,         \* the source lines the line loop has processed, in order
    grammar,       \* map[string]Rule: a function from rule names to rules
    parsingError,  \* the had-errors flag
    stderr,        \* the diagnostics written to the error stream, in order
    stdout,        \* the items written to the output stream, in order
    pc,            \* the position of main
    flags,         \* the command-line flags main has read so far
    visited,       \* the visited map of the -unused check
    generated,     \* the loop counter i of the generation loop
    last,          \* the outcome of the latest GenerateRandomMessage call
    input,         \* the argument of a function applied on its own
    output         \* its result; for calls made one at a time (the walk of
                   \* -unused, Peek and Next), the state they have reached

vars == <<lines, grammar, parsingError, stderr, stdout, pc, flags, visited,
          generated, last, input, output>>

\* Bound on the number of lines of the source file.
MaxLines == 3

\* Bound on the -count flag.
MaxCount == 2

EmptyGrammar == [name \in {} |-> NilExpr]

Rule(head, body) == [Head |-> head, Body |-> body]

\* grammar[symbol] = rule
SetRule(g, symbol, rule) ==
    [name \in DOMAIN g \cup {symbol} |-> IF name = symbol THEN rule ELSE g[name]]

LineOutcome(g, failed, diags) == [grammar |-> g, failed |-> failed, diags |-> diags]

\* The end of the loop body after its ExpectToken: the token after the rule
\* must be the end of line.
EndOfLineOutcome(eol, g) ==
    IF eol.err # Nil THEN LineOutcome(g, TRUE, <<eol.err>>)
    ELSE LineOutcome(g, FALSE, <<>>)

ExpectEndOfLine(g, lexer) == EndOfLineOutcome(ExpectToken(lexer, "TokenEOL"), g)

\* case TokenDefinition of the loop body, after the parse of the rule's body.
DefineBody(body, g, head) ==
    IF body.err # Nil THEN LineOutcome(g, TRUE, <<body.err>>)
    ELSE ExpectEndOfLine(SetRule(g, head.Text, Rule(head, body.expr)), body.lexer)

\* A faulty variant of DefineRule: no test for an existing rule.
DefineRuleOverwriting(g, lexer, head) == DefineBody(ParseExpr(lexer), g, head)

\* case TokenDefinition of the loop body.
DefineRule(g, lexer, head) ==
    IF head.Text \in DOMAIN g
    THEN LineOutcome(g, TRUE,
           << DiagErr(head.Loc, "redefinition of the rule %s", head.Text, <<>>),
              DiagErr(g[head.Text].Head.Loc,
                      "NOTE: the first definition is located here", <<>>, <<>>) >>)
    ELSE DefineBody(ParseExpr(lexer), g, head)

\* A faulty variant of MergedBody: the new alternative replaces the body.
MergedBodyReplacing(existingBody, body) == body

\* A faulty variant of MergedBody: the new alternative becomes the first
\* variant.
MergedBodyPrepending(existingBody, body) ==
    IF existingBody.Type = "ExprAlternation"
    THEN ExprAlternation(existingBody.Loc, <<body>> \o existingBody.Variants)
    ELSE ExprAlternation(existingBody.Loc, <<body, existingBody>>)

\* The body of a rule after an incremental alternative.
MergedBody(existingBody, body) ==
    IF existingBody.Type = "ExprAlternation"
    THEN ExprAlternation(existingBody.Loc, Append(existingBody.Variants, body))
    ELSE ExprAlternation(existingBody.Loc, <<existingBody, body>>)

\* case TokenIncAlternative of the loop body, after the parse of the new
\* alternative.
ExtendBody(body, g, head) ==
    IF body.err # Nil THEN LineOutcome(g, TRUE, <<body.err>>)
    ELSE ExpectEndOfLine(
            SetRule(g, head.Text,
                    Rule(g[head.Text].Head, MergedBody(g[head.Text].Body, body.expr))),
            body.lexer)

\* A faulty variant of ExtendRule: a missing rule is defined by the line.
ExtendRuleDefining(g, lexer, head) ==
    IF head.Text \notin DOMAIN g THEN DefineBody(ParseExpr(lexer), g, head)
    ELSE ExtendBody(ParseExpr(lexer), g, head)

\* case TokenIncAlternative of the loop body.
ExtendRule(g, lexer, head) ==
    IF head.Text \notin DOMAIN g
    THEN LineOutcome(g, TRUE,
           << DiagErr(head.Loc,
                "can't apply incremental alternative to a non-existing rule %s. You need to define it first.",
                head.Text, <<>>) >>)
    ELSE ExtendBody(ParseExpr(lexer), g, head)

\* The loop body after the token def that follows the head has been read.
LineOfDef(def, g, head) ==
    IF def.err # Nil THEN LineOutcome(g, TRUE, <<def.err>>)
    ELSE IF def.token.Kind = "TokenDefinition"
    THEN DefineRule(g, def.lexer, head)
    ELSE IF def.token.Kind = "TokenIncAlternative"
    THEN ExtendRule(g, def.lexer, head)
    ELSE LineOutcome(g, TRUE,
           << DiagErr(def.token.Loc, "Expected %s or %s but got %s", <<>>,
                      <<"TokenDefinition", "TokenIncAlternative", def.token.Kind>>) >>)

\* The loop body after the head of the rule has been expected.
LineOfHead(head, g) ==
    IF head.err # Nil THEN LineOutcome(g, TRUE, <<head.err>>)
    ELSE LineOfDef(LexNext(head.lexer), g, head.token)

\* The loop body after its first Peek, whose error is only looked at to tell
\* an empty line.
LineOfFirst(first, g) ==
    IF first.err = Nil /\ first.token.Kind = "TokenEOL"
    THEN LineOutcome(g, FALSE, <<>>)
    ELSE LineOfHead(ExpectToken(first.lexer, "TokenSymbol"), g)

\* The body of the line loop for one line: the grammar after it, whether it
\* set the had-errors flag, and what it wrote to the error stream.
LineResult(g, line, row) == LineOfFirst(Peek(NewLexer(line, row)), g)

NoOutcome == Outcome("none", <<>>, Nil, <<>>, <<>>)

NoFlags == [verify |-> "unread", unused |-> "unread", dump |-> "unread",
            entry |-> <<>>, count |-> -1]

NoInput == [op |-> "none", text |-> <<>>]

NoOutput == [done |-> FALSE, result |-> ParseFail(NewLexer(<<>>, 0), Nil)]

Init ==
    /\ lines = <<>>
    /\ grammar = EmptyGrammar
    /\ parsingError = FALSE
    /\ stderr = <<>>
    /\ stdout = <<>>
    /\ pc = "lines"
    /\ flags = NoFlags
    /\ visited = {}
    /\ generated = 0
    /\ last = NoOutcome
    /\ input = NoInput
    /\ output = NoOutput

OnOff(b) == IF b THEN "set" ELSE "unset"

\* One iteration of the line loop, on the next line of the file.
ProcessLine(line) ==
    /\ pc = "lines"
    /\ Len(lines) < MaxLines
    /\ \E r \in {LineResult(grammar, line, Len(lines))} :
           /\ grammar' = r.grammar
           /\ parsingError' = (parsingError \/ r.failed)
           /\ stderr' = stderr \o r.diags
    /\ lines' = Append(lines, line)
    /\ UNCHANGED <<stdout, pc, flags, visited, generated, last, input, output>>

\* A faulty variant of EndOfFile: the had-errors flag is not looked at.
EndOfFileIgnoringErrors ==
    /\ pc = "lines"
    /\ Len(lines) >= 1
    /\ pc' = "verify"
    /\ UNCHANGED <<lines, grammar, parsingError, stderr, stdout, flags, visited,
                   generated, last, input, output>>

\* The end of the file: exit with code 1 if any line set the had-errors flag.
EndOfFile ==
    /\ pc = "lines"
    /\ Len(lines) >= 1
    /\ pc' = IF parsingError THEN "exit1" ELSE "verify"
    /\ UNCHANGED <<lines, grammar, parsingError, stderr, stdout, flags, visited,
                   generated, last, input, output>>

\* A faulty variant of Verify: the reports are written and main goes on.
VerifyWithoutExit ==
    /\ pc = "verify"
    /\ \E v \in BOOLEAN, order \in Orders(DOMAIN grammar) :
         LET r == VerifyThatAllSymbolsDefined(grammar, order)
         IN  /\ flags' = [flags EXCEPT !.verify = OnOff(v)]
             /\ stderr' = IF v THEN stderr \o r.reports ELSE stderr
             /\ pc' = "entry"
    /\ UNCHANGED <<lines, grammar, parsingError, stdout, visited, generated, last,
                   input, output>>

\* if *verify: the definedness check.
Verify ==
    /\ pc = "verify"
    /\ \E v \in BOOLEAN, order \in Orders(DOMAIN grammar) :
         LET r == VerifyThatAllSymbolsDefined(grammar, order)
         IN  /\ flags' = [flags EXCEPT !.verify = OnOff(v)]
             /\ stderr' = IF v THEN stderr \o r.reports ELSE stderr
             /\ pc' = IF v /\ ~r.ok THEN "exit1" ELSE "entry"
    /\ UNCHANGED <<lines, grammar, parsingError, stdout, visited, generated, last,
                   input, output>>

RECURSIVE DumpAll(_, _, _)
\* The -dump loop over the sorted names, up to the first panic.
DumpAll(g, names, i) ==
    IF i > Len(names) THEN [panic |-> FALSE, printed |-> <<>>]
    ELSE LET text == RuleToString(g[names[i]])
             rest == DumpAll(g, names, i + 1)
         IN  IF text.panic THEN [panic |-> TRUE, printed |-> <<>>]
             ELSE [panic |-> rest.panic,
                   printed |-> <<[Kind |-> "dump", Loc |-> g[names[i]].Head.Loc,
                                  Text |-> text.text]>> \o rest.printed]

\* The lookup of -entry: "!" lists (or, with -dump, dumps) every rule.
SelectEntry(e) ==
    /\ pc = "entry"
    /\ IF e = <<33>>
       THEN \E d \in BOOLEAN :
              LET names == SortedNames(DOMAIN grammar)
                  all   == DumpAll(grammar, names, 1)
              IN  /\ flags' = [flags EXCEPT !.entry = e, !.dump = OnOff(d)]
                  /\ stdout' = stdout \o
                       (IF d THEN all.printed
                        ELSE [i \in 1..Len(names) |->
                                [Kind |-> "name", Loc |-> ZeroLoc, Text |-> names[i]]])
                  /\ pc' = IF d /\ all.panic THEN "panic" ELSE "exit0"
       ELSE /\ flags' = [flags EXCEPT !.entry = e]
            /\ stdout' = IF e \in DOMAIN grammar THEN stdout
                         ELSE Append(stdout, [Kind |-> "error", Loc |-> ZeroLoc, Text |-> e])
            /\ pc' = IF e \in DOMAIN grammar THEN "unused" ELSE "exit1"
    /\ UNCHANGED <<lines, grammar, parsingError, stderr, visited, generated, last,
                   input, output>>

\* The rules the -unused check reports, given the visited map.
UnusedRules(g, seen) == {name \in DOMAIN g : name \notin seen}

\* if *unused: the reachability check; the error of the walk is dropped.
Unused ==
    /\ pc = "unused"
    /\ \E u \in BOOLEAN :
         LET walk   == WalkSymbolsInExpr(grammar, grammar[flags.entry].Body, {flags.entry})
             unseen == UnusedRules(grammar, walk.visited)
         IN  /\ flags' = [flags EXCEPT !.unused = OnOff(u)]
             /\ visited' = IF u THEN walk.visited ELSE visited
             /\ IF u
                THEN \E order \in Orders(unseen) :
                       stderr' = stderr \o
                         [i \in 1..Len(order) |->
                            DiagErr(grammar[order[i]].Head.Loc, "%s is unused", order[i], <<>>)]
                ELSE stderr' = stderr
             /\ pc' = IF u /\ unseen # {} THEN "exit1" ELSE "dump"
    /\ UNCHANGED <<lines, grammar, parsingError, stdout, generated, last, input, output>>

\* if *dump: print the textual form of the entry rule and return.
Dump ==
    /\ pc = "dump"
    /\ \E d \in BOOLEAN, c \in 0..MaxCount :
         LET text == RuleToString(grammar[flags.entry])
         IN  /\ flags' = [flags EXCEPT !.dump = OnOff(d),
                                       !.count = IF d THEN @ ELSE c]
             /\ stdout' = IF d /\ ~text.panic
                          THEN Append(stdout, [Kind |-> "dump",
                                               Loc |-> grammar[flags.entry].Head.Loc,
                                               Text |-> text.text])
                          ELSE stdout
             /\ pc' = IF ~d THEN "generate" ELSE IF text.panic THEN "panic" ELSE "exit0"
    /\ UNCHANGED <<lines, grammar, parsingError, stderr, visited, generated, last,
                   input, output>>

\* One iteration of the generation loop.
Generate ==
    /\ pc = "generate"
    /\ generated < flags.count
    /\ \E o \in GenerateRandomMessage(grammar, grammar[flags.entry].Body, MaxDepth) :
         /\ last' = o
         /\ stdout' = IF o.Status = "ok"
                      THEN Append(stdout, [Kind |-> "message", Loc |-> ZeroLoc,
                                           Text |-> o.Message])
                      ELSE stdout
         /\ stderr' = IF o.Status = "err" THEN Append(stderr, o.Err) ELSE stderr
         /\ generated' = IF o.Status = "ok" THEN generated + 1 ELSE generated
         /\ pc' = IF o.Status = "ok" THEN "generate"
                  ELSE IF o.Status = "err" THEN "exit1" ELSE "panic"
    /\ UNCHANGED <<lines, grammar, parsingError, flags, visited, input, output>>

\* The end of the generation loop: main returns.
Return ==
    /\ pc = "generate"
    /\ generated >= flags.count
    /\ pc' = "exit0"
    /\ UNCHANGED <<lines, grammar, parsingError, stderr, stdout, flags, visited,
                   generated, last, input, output>>

\* The run of main over source lines drawn from Lines and -entry from Entries.
Main(Lines, Entries) ==
    \/ \E line \in Lines : ProcessLine(line)
    \/ EndOfFile
    \/ Verify
    \/ \E e \in Entries : SelectEntry(e)
    \/ Unused
    \/ Dump
    \/ Generate
    \/ Return

(***************************************************************************)
(* Specifications                                                          *)
(***************************************************************************)

\* Rule names used as -entry: "s", "t" and "!".
NameS == <<115>>
NameT == <<116>>
ListAll == <<33>>

\* Source lines for the generator: repetitions, ranges, inverted bounds, a count at 2^31, and rules that reach them through symbols.
GenLines ==
\*   s = 2"a"
    { <<115, 32, 61, 32, 50, 34, 97, 34>>,
\*   s = 1*2"a"
      <<115, 32, 61, 32, 49, 42, 50, 34, 97, 34>>,
\*   s = %x30-32
      <<115, 32, 61, 32, 37, 120, 51, 48, 45, 51, 50>>,
\*   s = "a" ... "c"
      <<115, 32, 61, 32, 34, 97, 34, 32, 46, 46, 46, 32, 34, 99, 34>>,
\*   s = "z" ... "a"
      <<115, 32, 61, 32, 34, 122, 34, 32, 46, 46, 46, 32, 34, 97, 34>>,
\*   s = 25*"x"
      <<115, 32, 61, 32, 50, 53, 42, 34, 120, 34>>,
\*   s = 2147483648"a"
      <<115, 32, 61, 32, 50, 49, 52, 55, 52, 56, 51, 54, 52, 56, 34, 97, 34>>,
\*   t = s / "(" [s] ")"
      <<116, 32, 61, 32, 115, 32, 47, 32, 34, 40, 34, 32, 91, 115, 93, 32, 34, 41, 34>>,
\*   t = 2s
      <<116, 32, 61, 32, 50, 115>> }

GenEntries == {NameS, NameT, ListAll}

NextGen == Main(GenLines, GenEntries)

\* Runs of main over the generator lines.
SpecGen == Init /\ [][NextGen]_vars

(***************************************************************************)
(* Properties of the generator, over the runs of SpecGen                   *)
(***************************************************************************)

RECURSIVE SubExprs(_)
\* The nodes of an expression tree.
SubExprs(expr) ==
    {expr} \cup
    (IF expr.Type = "ExprAlternation"
     THEN UNION {SubExprs(expr.Variants[i]) : i \in 1..Len(expr.Variants)}
     ELSE IF expr.Type = "ExprConcat"
     THEN UNION {SubExprs(expr.Elements[i]) : i \in 1..Len(expr.Elements)}
     ELSE IF expr.Type = "ExprRepetition" THEN SubExprs(expr.Body)
     ELSE {})

\* The nodes of the bodies of all rules of grammar g.
GrammarNodes(g) == UNION {SubExprs(g[name].Body) : name \in DOMAIN g}

\* The nodes of the grammar table a logged call was made on.
NodesCalled(call) ==
    {node \in GrammarNodes(grammar) : node.Loc = call.Loc /\ node.Type = call.Type}

\* lower <= n <= upper, for a count n and bounds of type uint.
CountWithin(n, lower, upper) ==
    /\ n >= 0
    /\ ~UintLess(UintOf(n), lower)
    /\ ~UintLess(upper, UintOf(n))

\* C1: in every successful generation, each Repetition node whose loop ran
\* expanded its body n times with lower <= n <= upper.
C1_RepetitionCountWithinBounds ==
    last.Status = "ok" =>
        \A i \in 1..Len(last.Reps) :
            CountWithin(last.Reps[i].Count, last.Reps[i].Lower, last.Reps[i].Upper)

\* C1: a generation from `2147483648"a"` succeeded with no expansion of the
\* body, below the lower bound 2^31.
C1_CountBelowLowerReached ==
    /\ last.Status = "ok"
    /\ last.Message = <<>>
    /\ \E i \in 1..Len(last.Reps) :
         /\ last.Reps[i].Count = 0
         /\ last.Reps[i].Lower = <<0, 32768, 0, 0>>
         /\ last.Reps[i].Upper = <<0, 32768, 0, 0>>

\* C2: every call of GenerateRandomMessage on a Range node with
\* lower <= upper returns exactly one character c with lower <= c <= upper.
C2_RangeEmitsOneCharWithinBounds ==
    \A i \in 1..Len(last.Calls) :
        \A node \in NodesCalled(last.Calls[i]) :
            (node.Type = "ExprRange" /\ node.Lower <= node.Upper) =>
                /\ last.Calls[i].Status = "ok"
                /\ Len(last.Calls[i].Message) = 1
                /\ node.Lower <= last.Calls[i].Message[1]
                /\ last.Calls[i].Message[1] <= node.Upper

\* C2: a Range node with lower < upper, reached through a symbol, emitted its
\* upper bound.
C2_RangeUpperBoundEmitted ==
    \E i \in 2..Len(last.Calls) :
        \E node \in NodesCalled(last.Calls[i]) :
            /\ node.Type = "ExprRange"
            /\ node.Lower < node.Upper
            /\ last.Calls[i].Status = "ok"
            /\ last.Calls[i].Message = <<node.Upper>>

\* lower > upper on a Range or a Repetition node.
BoundsInverted(node) ==
    \/ node.Type = "ExprRange" /\ node.Lower > node.Upper
    \/ node.Type = "ExprRepetition" /\ UintLess(node.Upper, node.Lower)

\* C3: every call of GenerateRandomMessage on a Range or Repetition node with
\* lower > upper returns a diagnostic located at that node, the generation as
\* a whole returns it, and main writes it to the error stream and prints no
\* text for that generation.
C3_InvertedBoundsYieldDiagnostic ==
    \A i \in 1..Len(last.Calls) :
        \A node \in NodesCalled(last.Calls[i]) :
            BoundsInverted(node) =>
                /\ last.Calls[i].Status = "err"
                /\ last.Calls[i].Message = <<>>
                /\ last.Status = "err"
                /\ last.Err # Nil
                /\ last.Err.Loc = node.Loc
                /\ Len(stderr) >= 1
                /\ stderr[Len(stderr)] = last.Err
                /\ pc = "exit1"

\* C3: generation reached the Repetition 25*"x" (upper bound 20 by default)
\* below another node and ended in its diagnostic.
C3_InvertedRepetitionReached ==
    \E i \in 2..Len(last.Calls) :
        \E node \in NodesCalled(last.Calls[i]) :
            /\ node.Type = "ExprRepetition"
            /\ UintLess(node.Upper, node.Lower)
            /\ last.Calls[i].Status = "err"
            /\ last.Status = "err"

(***************************************************************************)
(* ParsePrimaryExpr applied on its own to repetition prefixes              *)
(***************************************************************************)

\* Primary expressions X:  "a"   x   ( a / "b" )   [ x ]   { "a" }   %x30-39
\* "a" ... "c"
PrimaryTexts ==
    { <<34, 97, 34>>,
      <<120>>,
      <<40, 32, 97, 32, 47, 32, 34, 98, 34, 32, 41>>,
      <<91, 32, 120, 32, 93>>,
      <<123, 32, 34, 97, 34, 32, 125>>,
      <<37, 120, 51, 48, 45, 51, 57>>,
      <<34, 97, 34, 32, 46, 46, 46, 32, 34, 99, 34>> }

\* The numbers written before and after the asterisk; -1 stands for none.
LowerNumbers == {-1, 1, 3}
UpperNumbers == {-1, 2, 20}

\* The text `n * m X`, each of n, * and m present or not.
PrefixText(lower, star, upper, body) ==
    (IF lower >= 0 THEN DecimalOfNat(lower) \o <<32>> ELSE <<>>)
    \o (IF star THEN <<42, 32>> ELSE <<>>)
    \o (IF upper >= 0 THEN DecimalOfNat(upper) \o <<32>> ELSE <<>>)
    \o body

\* The inputs of ParsePrimaryExpr: X alone, n X, * X, * m X, n * X, n * m X.
ParseInputs ==
    { [op |-> "ParsePrimaryExpr", lower |-> lower, star |-> star, upper |-> upper,
       body |-> body, text |-> PrefixText(lower, star, upper, body)] :
        lower \in LowerNumbers, star \in BOOLEAN, upper \in UpperNumbers,
        body \in PrimaryTexts }

InitParse ==
    /\ input \in {i \in ParseInputs : i.star \/ i.upper < 0}
    /\ output = NoOutput
    /\ lines = <<>>
    /\ grammar = EmptyGrammar
    /\ parsingError = FALSE
    /\ stderr = <<>>
    /\ stdout = <<>>
    /\ pc = "call"
    /\ flags = NoFlags
    /\ visited = {}
    /\ generated = 0
    /\ last = NoOutcome

\* The call ParsePrimaryExpr(&lexer) on a fresh lexer over the input text.
CallParsePrimaryExpr ==
    /\ pc = "call"
    /\ input.op = "ParsePrimaryExpr"
    /\ output' = [done |-> TRUE, result |-> ParsePrimaryExpr(NewLexer(input.text, 0))]
    /\ pc' = "return"
    /\ UNCHANGED <<lines, grammar, parsingError, stderr, stdout, flags, visited,
                   generated, last, input>>

NextParse == CallParsePrimaryExpr

SpecParse == InitParse /\ [][NextParse]_vars

RECURSIVE StripLoc(_)
\* An expression with the location of every node cleared: what two parses of
\* the same tokens at different columns have in common.
StripLoc(expr) ==
    IF expr.Type = "ExprAlternation"
    THEN ExprAlternation(ZeroLoc,
            [i \in 1..Len(expr.Variants) |-> StripLoc(expr.Variants[i])])
    ELSE IF expr.Type = "ExprConcat"
    THEN ExprConcat(ZeroLoc,
            [i \in 1..Len(expr.Elements) |-> StripLoc(expr.Elements[i])])
    ELSE IF expr.Type = "ExprRepetition"
    THEN ExprRepetition(ZeroLoc, StripLoc(expr.Body), expr.Lower, expr.Upper)
    ELSE IF expr.Type = "nil" THEN expr
    ELSE [expr EXCEPT !.Loc = ZeroLoc]

\* The parse of the primary expression X of the input, alone.
BodyAlone == StripLoc(ParsePrimaryExpr(NewLexer(input.body, 0)).expr)

\* The result is the single node Repetition{lower, upper, X}.
ParsedRepetition(lower, upper) ==
    /\ output.result.err = Nil
    /\ StripLoc(output.result.expr) = ExprRepetition(ZeroLoc, BodyAlone, lower, upper)

\* C4: ParsePrimaryExpr on `n * m X` returns the single node
\* Repetition{n, m, X}, X being the parse of X alone.
C4_NumberStarNumberIsOneRepetition ==
    (output.done /\ input.lower >= 0 /\ input.star /\ input.upper >= 0) =>
        ParsedRepetition(UintOf(input.lower), UintOf(input.upper))

\* C4: on `n * m X` the parse returned Repetition{n, m, Repetition{m, m, X}}:
\* the number m was read again as the count of the body.
C4_UpperBoundParsedIntoBody ==
    /\ output.done /\ input.lower >= 0 /\ input.star /\ input.upper >= 0
    /\ output.result.err = Nil
    /\ StripLoc(output.result.expr) =
         ExprRepetition(ZeroLoc,
            ExprRepetition(ZeroLoc, BodyAlone, UintOf(input.upper), UintOf(input.upper)),
            UintOf(input.lower), UintOf(input.upper))

\* C5: ParsePrimaryExpr on `* m X` returns the single node Repetition{0, m, X},
\* and on `* X` the node Repetition{0, 20, X}.
C5_StarPrefixIsOneRepetition ==
    (output.done /\ input.lower < 0 /\ input.star) =>
        ParsedRepetition(UintOf(0),
            IF input.upper >= 0 THEN UintOf(input.upper)
            ELSE UintOf(MaxUnspecifiedUpperRepetitionBound))

\* C5: on `* m X` the parse returned Repetition{0, m, Repetition{m, m, X}}.
C5_UpperBoundParsedIntoBody ==
    /\ output.done /\ input.lower < 0 /\ input.star /\ input.upper >= 0
    /\ output.result.err = Nil
    /\ StripLoc(output.result.expr) =
         ExprRepetition(ZeroLoc,
            ExprRepetition(ZeroLoc, BodyAlone, UintOf(input.upper), UintOf(input.upper)),
            UintOf(0), UintOf(input.upper))

(***************************************************************************)
(* The line loop over definitions and incremental alternatives             *)
(***************************************************************************)

NameR == <<114>>

\* Source lines that define, redefine and extend the rule r.
IngestLines ==
\*   r = "a" / "b"
    { <<114, 32, 61, 32, 34, 97, 34, 32, 47, 32, 34, 98, 34>>,
\*   r =/ "c"
      <<114, 32, 61, 47, 32, 34, 99, 34>>,
\*   r =/ "d" / "e"
      <<114, 32, 61, 47, 32, 34, 100, 34, 32, 47, 32, 34, 101, 34>>,
\*   r = "a" "b"
      <<114, 32, 61, 32, 34, 97, 34, 32, 34, 98, 34>>,
\*   r ::= "c"
      <<114, 32, 58, 58, 61, 32, 34, 99, 34>> }

IngestEntries == {NameR, ListAll}

NextIngest == Main(IngestLines, IngestEntries)

\* Runs of main over the lines that define and extend r.
SpecIngest == Init /\ [][NextIngest]_vars

\* The head token of a source line on the given row.
LineHead(line, row) == ExpectToken(NewLexer(line, row), "TokenSymbol")

\* The token after the head of a source line, with the lexer behind it.
LineDef(line, row) == LexNext(LineHead(line, row).lexer)

\* The text of a source line after its definition token and the blanks that
\* follow it.
BodyText(line) ==
    SubSeq(line, TrimCol(line, LineDef(line, 0).lexer.Col) + 1, Len(line))

RECURSIVE AlternativesFrom(_, _)
\* The bodies of lines i.. of ls, each written after " / ".
AlternativesFrom(ls, i) ==
    IF i > Len(ls) THEN <<>>
    ELSE <<32, 47, 32>> \o BodyText(ls[i]) \o AlternativesFrom(ls, i + 1)

\* The single line `name = body1 / body2 / ...` for the lines ls, of which
\* the first defines name and the others extend it.
SingleLine(ls) ==
    LineHead(ls[1], 0).token.Text \o <<32, 61, 32>> \o BodyText(ls[1])
    \o AlternativesFrom(ls, 2)

\* The line loop has read a definition of a rule followed by one or more
\* incremental alternatives of that rule.
IncrementalFile ==
    /\ pc = "lines"
    /\ Len(lines) >= 2
    /\ LineDef(lines[1], 0).token.Kind = "TokenDefinition"
    /\ \A i \in 2..Len(lines) :
         /\ LineDef(lines[i], i - 1).token.Kind = "TokenIncAlternative"
         /\ LineHead(lines[i], i - 1).token.Text = LineHead(lines[1], 0).token.Text

\* What generation from rule name of grammar g can return: the texts, each
\* with the way the call ended.
Generated(g, name) ==
    {<<o.Status, o.Message>> : o \in GenerateRandomMessage(g, g[name].Body, MaxDepth)}

\* C6: after a definition of a rule and incremental alternatives of it, the
\* rule generates the same set of texts as the rule of the single line that
\* lists all the alternatives.
C6_IncrementalEquivalentToSingleLine ==
    IncrementalFile =>
        /\ ~parsingError
        /\ ~LineResult(EmptyGrammar, SingleLine(lines), 0).failed
        /\ DOMAIN grammar = {LineHead(lines[1], 0).token.Text}
        /\ Generated(grammar, LineHead(lines[1], 0).token.Text)
             = Generated(LineResult(EmptyGrammar, SingleLine(lines), 0).grammar,
                         LineHead(lines[1], 0).token.Text)

\* C6: the file `r = "a" / "b"`, `r =/ "c"`, `r =/ "d" / "e"` has been read,
\* and r generates the five texts a, b, c, d and e.
C6_ReadmeExampleRead ==
    /\ IncrementalFile
    /\ Len(lines) = 3
    /\ SingleLine(lines) =
         <<114, 32, 61, 32, 34, 97, 34, 32, 47, 32, 34, 98, 34, 32, 47, 32, 34, 99, 34,
           32, 47, 32, 34, 100, 34, 32, 47, 32, 34, 101, 34>>
    /\ Generated(grammar, NameR) =
         {<<"ok", <<97>>>>, <<"ok", <<98>>>>, <<"ok", <<99>>>>, <<"ok", <<100>>>>,
          <<"ok", <<101>>>>}

\* The line loop has just read the line lines'[Len(lines')].
LineRead == pc = "lines" /\ Len(lines') = Len(lines) + 1

\* C7: a definition line whose head names an existing rule writes the
\* redefinition diagnostic at the new head and the note at the head of the
\* existing rule, sets the had-errors flag and leaves the table unchanged.
C7_RedefinitionRejected ==
    [][ ( /\ LineRead
          /\ LineDef(lines'[Len(lines')], Len(lines)).token.Kind = "TokenDefinition"
          /\ LineHead(lines'[Len(lines')], Len(lines)).token.Text \in DOMAIN grammar )
        => ( /\ grammar' = grammar
             /\ parsingError'
             /\ Len(stderr') = Len(stderr) + 2
             /\ SubSeq(stderr', 1, Len(stderr)) = stderr
             /\ stderr'[Len(stderr) + 1] =
                  DiagErr(Loc(Len(lines), 0), "redefinition of the rule %s",
                          LineHead(lines'[Len(lines')], Len(lines)).token.Text, <<>>)
             /\ stderr'[Len(stderr) + 2] =
                  DiagErr(grammar[LineHead(lines'[Len(lines')], Len(lines)).token.Text].Head.Loc,
                          "NOTE: the first definition is located here", <<>>, <<>>)
             /\ stderr'[Len(stderr) + 2].Loc.Row < Len(lines)
             /\ LineDef(lines[stderr'[Len(stderr) + 2].Loc.Row + 1],
                        stderr'[Len(stderr) + 2].Loc.Row).token.Kind = "TokenDefinition" )
      ]_vars

\* C7: `r ::= "c"` was read on the third line after `r = "a" / "b"` and
\* `r =/ "c"`: the diagnostic cites rows 2 and 0, and r keeps its three
\* variants.
C7_RedefinitionReached ==
    /\ Len(lines) = 3
    /\ lines[3] = <<114, 32, 58, 58, 61, 32, 34, 99, 34>>
    /\ Len(stderr) = 2
    /\ stderr[1].Err = "redefinition of the rule %s" /\ stderr[1].Loc = Loc(2, 0)
    /\ stderr[2].Loc = Loc(0, 0)
    /\ parsingError
    /\ Len(grammar[NameR].Body.Variants) = 3

\* C8: an incremental alternative line whose head names no rule of the
\* table writes one diagnostic at the head, sets the had-errors flag and
\* leaves the table unchanged.
C8_ExtendingMissingRuleRejected ==
    [][ ( /\ LineRead
          /\ LineDef(lines'[Len(lines')], Len(lines)).token.Kind = "TokenIncAlternative"
          /\ LineHead(lines'[Len(lines')], Len(lines)).token.Text \notin DOMAIN grammar )
        => ( /\ grammar' = grammar
             /\ parsingError'
             /\ stderr' = Append(stderr,
                  DiagErr(Loc(Len(lines), 0),
                    "can't apply incremental alternative to a non-existing rule %s. You need to define it first.",
                    LineHead(lines'[Len(lines')], Len(lines)).token.Text, <<>>)) )
      ]_vars

\* C8: `r =/ "c"` was read first and `r = "a" "b"` after it: one diagnostic
\* on row 0, the flag set, and r defined by the second line alone.
C8_ExtendingMissingRuleReached ==
    /\ Len(lines) = 2
    /\ lines[1] = <<114, 32, 61, 47, 32, 34, 99, 34>>
    /\ Len(stderr) = 1 /\ stderr[1].Loc = Loc(0, 0)
    /\ parsingError
    /\ NameR \in DOMAIN grammar
    /\ grammar[NameR].Head.Loc = Loc(1, 0)
    /\ grammar[NameR].Body.Type = "ExprConcat"

(***************************************************************************)
(* The definedness and reachability checks                                 *)
(***************************************************************************)

NameE == <<101>>
NameU == <<117>>

\* Source lines with references to rules that are defined, undefined,
\* nested, cyclic and out of reach of the entry.
CheckLines ==
\*   e = x y
    { <<101, 32, 61, 32, 120, 32, 121>>,
\*   y = "a"
      <<121, 32, 61, 32, 34, 97, 34>>,
\*   e = y / [ z ]
      <<101, 32, 61, 32, 121, 32, 47, 32, 91, 32, 122, 32, 93>>,
\*   z = e
      <<122, 32, 61, 32, 101>>,
\*   u = [ ( w "b" ) ] v
      <<117, 32, 61, 32, 91, 32, 40, 32, 119, 32, 34, 98, 34, 32, 41, 32, 93, 32, 118>>,
\*   x = "b"
      <<120, 32, 61, 32, 34, 98, 34>> }

CheckEntries == {NameE, NameU, ListAll}

NextCheck == Main(CheckLines, CheckEntries)

\* Runs of main over the lines with references between rules.
SpecCheck == Init /\ [][NextCheck]_vars

\* The Symbol nodes of grammar g that name no rule of g.
UndefinedSymbols(g) ==
    {node \in GrammarNodes(g) : node.Type = "ExprSymbol" /\ node.Name \notin DOMAIN g}

\* C9: with -verify, the definedness check writes one diagnostic, with the
\* location and the name, for each Symbol node of each rule body that names
\* no rule of the table, and nothing else; main exits with code 1 iff there
\* is such a node.
C9_VerifyReportsEveryUndefinedSymbol ==
    [][ (pc = "verify" /\ flags'.verify = "set") =>
          /\ Len(stderr') = Len(stderr) + Cardinality(UndefinedSymbols(grammar))
          /\ SubSeq(stderr', 1, Len(stderr)) = stderr
          /\ {stderr'[i] : i \in (Len(stderr) + 1)..Len(stderr')}
               = {DiagErr(node.Loc, "Symbol %s is not defined", node.Name, <<>>) :
                    node \in UndefinedSymbols(grammar)}
          /\ (pc' = "exit1") <=> (UndefinedSymbols(grammar) # {})
          /\ (pc' = "entry") <=> (UndefinedSymbols(grammar) = {})
      ]_vars

\* C9: -verify has reported the three undefined symbols of `e = x y` and
\* `u = [ ( w "b" ) ] v`: x, w inside a repetition and v after it.
C9_ThreeUndefinedReported ==
    /\ flags.verify = "set"
    /\ pc = "exit1"
    /\ Len(stderr) = 3
    /\ {stderr[i].Args : i \in 1..3} = {<<120>>, <<119>>, <<118>>}
    /\ DOMAIN grammar = {NameE, NameU, <<121>>}

RECURSIVE ReachFrom(_, _)
\* The names reached from the names S by following the Symbol nodes of the
\* bodies of the rules among them.
ReachFrom(g, S) ==
    LET next == S \cup {node.Name :
                          node \in {n \in UNION {SubExprs(g[name].Body) :
                                                   name \in S \cap DOMAIN g} :
                                      n.Type = "ExprSymbol"}}
    IN  IF next = S THEN S ELSE ReachFrom(g, next)

\* The rules of g reachable from the entry rule.
Reachable(g, entry) == ReachFrom(g, {entry}) \cap DOMAIN g

\* The names the -unused check has reported.
ReportedUnused ==
    {stderr[i].Args : i \in {j \in 1..Len(stderr) : stderr[j].Err = "%s is unused"}}

\* C10: with -unused, a rule is reported as unused iff it is not reachable
\* from the entry rule, and every reachable rule is marked visited.
C10_UnusedIffUnreachable ==
    flags.unused = "set" =>
        /\ ReportedUnused = DOMAIN grammar \ Reachable(grammar, flags.entry)
        /\ Reachable(grammar, flags.entry) \subseteq visited

\* C10: after `e = x y` and `y = "a"`, -entry e -unused has reported y as
\* unused: the walk ended at the undefined x before it came to y.
C10_ReferencedRuleReportedUnused ==
    /\ flags.unused = "set"
    /\ flags.entry = NameE
    /\ lines = << <<101, 32, 61, 32, 120, 32, 121>>, <<121, 32, 61, 32, 34, 97, 34>> >>
    /\ ReportedUnused = {<<121>>}
    /\ <<121>> \in Reachable(grammar, NameE)
    /\ <<121>> \notin visited

(***************************************************************************)
(* The reachability walk, one call at a time                               *)
(***************************************************************************)

\* Bound on the number of expressions waiting to be walked.
MaxStack == 12

NameA == <<97>>
NameB == <<98>>

\* Source lines with cycles through Symbol references, direct and through
\* repetitions, and with a reference to an undefined rule.
WalkLines ==
\*   a ::= <b>
    { <<97, 32, 58, 58, 61, 32, 60, 98, 62>>,
\*   b ::= <a> | "x"
      <<98, 32, 58, 58, 61, 32, 60, 97, 62, 32, 124, 32, 34, 120, 34>>,
\*   a = b *( c a )
      <<97, 32, 61, 32, 98, 32, 42, 40, 32, 99, 32, 97, 32, 41>>,
\*   c = a [ b c ] z
      <<99, 32, 61, 32, 97, 32, 91, 32, 98, 32, 99, 32, 93, 32, 122>>,
\*   b = c c
      <<98, 32, 61, 32, 99, 32, 99>> }

WalkEntries == {NameA, NameB}

\* A faulty variant of Marked: the name is not recorded.
MarkedNowhere(seen, name) == seen

\* visited[expr.Name] = true
Marked(seen, name) == seen \cup {name}

\* The state of a walk: the expressions whose calls are still to be made, the
\* next one first, the names of the rules whose bodies have been walked, in
\* order, and the error returned.
WalkState(stack, expanded, err) == [stack |-> stack, expanded |-> expanded, err |-> err]

\* if *unused: main marks the entry and calls WalkSymbolsInExpr on its body.
WalkStart ==
    /\ pc = "unused"
    /\ flags' = [flags EXCEPT !.unused = "set"]
    /\ visited' = Marked({}, flags.entry)
    /\ output' = WalkState(<<grammar[flags.entry].Body>>, <<>>, Nil)
    /\ pc' = "walk"
    /\ UNCHANGED <<lines, grammar, parsingError, stderr, stdout, generated, last, input>>

\* One call of WalkSymbolsInExpr: the call on the expression that is next.
\* The calls it makes in turn are put before the ones that were waiting; an
\* error empties the stack, as every caller returns it at once.
WalkCall ==
    /\ pc = "walk"
    /\ output.stack # <<>>
    /\ Len(output.stack) <= MaxStack
    /\ LET expr == Head(output.stack)
           rest == Tail(output.stack)
       IN  IF expr.Type = "ExprSymbol"
           THEN IF expr.Name \in visited
                THEN /\ output' = [output EXCEPT !.stack = rest]
                     /\ visited' = visited
                ELSE /\ visited' = Marked(visited, expr.Name)
                     /\ output' =
                          IF expr.Name \notin DOMAIN grammar
                          THEN WalkState(<<>>, output.expanded,
                                 DiagErr(expr.Loc, "Symbol <%s> is not defined",
                                         expr.Name, <<>>))
                          ELSE WalkState(<<grammar[expr.Name].Body>> \o rest,
                                         Append(output.expanded, expr.Name), Nil)
           ELSE /\ visited' = visited
                /\ output' = [output EXCEPT !.stack =
                     IF expr.Type = "ExprAlternation" THEN expr.Variants \o rest
                     ELSE IF expr.Type = "ExprConcat" THEN expr.Elements \o rest
                     ELSE IF expr.Type = "ExprRepetition" THEN <<expr.Body>> \o rest
                     ELSE rest]
    /\ UNCHANGED <<lines, grammar, parsingError, stderr, stdout, pc, flags,
                   generated, last, input>>

\* The outermost call has returned to main.
WalkReturn ==
    /\ pc = "walk"
    /\ output.stack = <<>>
    /\ pc' = "walked"
    /\ UNCHANGED <<lines, grammar, parsingError, stderr, stdout, flags, visited,
                   generated, last, input, output>>

NextWalk ==
    \/ \E line \in WalkLines : ProcessLine(line)
    \/ EndOfFile
    \/ Verify
    \/ \E e \in WalkEntries : SelectEntry(e)
    \/ WalkStart
    \/ WalkCall
    \/ WalkReturn

\* Runs of main up to the end of the walk of the -unused check; a call that
\* has been made runs to its end.
SpecWalk ==
    Init /\ [][NextWalk]_vars /\ WF_vars(WalkStart \/ WalkCall \/ WalkReturn)

\* The file is the cycle of the two rules a ::= <b> and b ::= <a> | "x".
CycleFile ==
    lines = << <<97, 32, 58, 58, 61, 32, 60, 98, 62>>,
               <<98, 32, 58, 58, 61, 32, 60, 97, 62, 32, 124, 32, 34, 120, 34>> >>

\* C11: the walk of the -unused check ends on every grammar, cyclic ones
\* included; no rule body is walked twice in one walk; the walk one call at a
\* time ends with the visited set and the error of WalkSymbolsInExpr; when it
\* ends without an error every rule reachable from the entry is visited, so
\* on a ::= <b>, b ::= <a> | "x" with entry a both a and b are.
C11_WalkTerminatesAndVisitsOnce ==
    /\ (pc = "walk") ~> (pc = "walked")
    /\ [](pc \in {"walk", "walked"} =>
            /\ \A i, j \in 1..Len(output.expanded) :
                   output.expanded[i] = output.expanded[j] => i = j
            /\ Len(output.stack) <= MaxStack)
    /\ [](pc = "walked" =>
            /\ [visited |-> visited, err |-> output.err]
                 = WalkSymbolsInExpr(grammar, grammar[flags.entry].Body, {flags.entry})
            /\ output.err = Nil => Reachable(grammar, flags.entry) \subseteq visited
            /\ (CycleFile /\ flags.entry = NameA) => visited = {NameA, NameB})

\* C11: the walk from a over a ::= <b>, b ::= <a> | "x" has ended; it went
\* through b back to a, and walked the body of b once.
C11_CycleWalked ==
    /\ pc = "walked"
    /\ CycleFile
    /\ flags.entry = NameA
    /\ visited = {NameA, NameB}
    /\ output.expanded = <<NameB>>
    /\ output.err = Nil

(***************************************************************************)
(* Lines with lexical errors                                               *)
(***************************************************************************)

\* Source lines whose first token, or a later one, is malformed, and well
\* formed ones.
FaultyLines ==
\*   %xZZ = "a"
    { <<37, 120, 90, 90, 32, 61, 32, 34, 97, 34>>,
\*   '\q = "a"
      <<39, 92, 113, 32, 61, 32, 34, 97, 34>>,
\*   "\q" r = "a"
      <<34, 92, 113, 34, 32, 114, 32, 61, 32, 34, 97, 34>>,
\*   r = "\q"
      <<114, 32, 61, 32, 34, 92, 113, 34>>,
\*   r = %x6
      <<114, 32, 61, 32, 37, 120, 54>>,
\*   r = "a"
      <<114, 32, 61, 32, 34, 97, 34>>,
\*   q = r
      <<113, 32, 61, 32, 114>> }

FaultyEntries == {NameR, ListAll}

NextFaulty == Main(FaultyLines, FaultyEntries)

\* Runs of main over the lines with lexical errors.
SpecFaulty == Init /\ [][NextFaulty]_vars

\* The result of the first lexer call the loop body makes on a line.
FirstPeek(line, row) == Peek(NewLexer(line, row))

\* C12: when the first lexer call on a line, the Peek that tells an empty
\* line, returns a diagnostic, the line writes that diagnostic to the error
\* stream, sets the had-errors flag and leaves the table unchanged.
C12_LexerDiagnosticReported ==
    [][ ( /\ LineRead
          /\ FirstPeek(lines'[Len(lines')], Len(lines)).err # Nil )
        => ( /\ \E i \in (Len(stderr) + 1)..Len(stderr') :
                   stderr'[i] = FirstPeek(lines'[Len(lines')], Len(lines)).err
             /\ parsingError'
             /\ grammar' = grammar )
      ]_vars

\* C12: the line `%xZZ = "a"` was read alone: its first token is a
\* malformed value range, yet nothing was written, the flag is not set and
\* the table holds a rule ZZ.
C12_FirstPeekDiagnosticDropped ==
    /\ lines = << <<37, 120, 90, 90, 32, 61, 32, 34, 97, 34>> >>
    /\ FirstPeek(lines[1], 0).err # Nil
    /\ stderr = <<>>
    /\ ~parsingError
    /\ DOMAIN grammar = {<<90, 90>>}

RECURSIVE EveryLineRead(_, _, _)
\* What the loop body leaves when it is run on each of the lines ls[i..] in
\* turn, none left out, from the table, flag and diagnostics acc.
EveryLineRead(ls, i, acc) ==
    IF i > Len(ls) THEN acc
    ELSE LET r == LineResult(acc.grammar, ls[i], i - 1)
         IN  EveryLineRead(ls, i + 1,
                 LineOutcome(r.grammar, acc.failed \/ r.failed, acc.diags \o r.diags))

MaxNexts == 6

\* Bound on the number of Peek calls made between two Next calls.
MaxPeeks == 2

\* Line contents for the lexer: every kind of token, literal tokens one
\* after the other without blanks, and malformed tokens.
LexTexts ==
\*   r =/ "a" | <b>
    { <<114, 32, 61, 47, 32, 34, 97, 34, 32, 124, 32, 60, 98, 62>>,
\*   r ::= 2*%x30-37
      <<114, 32, 58, 58, 61, 32, 50, 42, 37, 120, 51, 48, 45, 51, 55>>,
\*   %xZZ = "a"
      <<37, 120, 90, 90, 32, 61, 32, 34, 97, 34>>,
\*   a "\q" b
      <<97, 32, 34, 92, 113, 34, 32, 98>>,
\*   x=/y::=z=w
      <<120, 61, 47, 121, 58, 58, 61, 122, 61, 119>>,
\*   ( [ { } ] ) ... * ; c
      <<40, 32, 91, 32, 123, 32, 125, 32, 93, 32, 41, 32, 46, 46, 46, 32, 42, 32, 59, 32, 99>> }

\* What a caller of Peek or Next gets: the token, or the diagnostic alone.
Returned(r) ==
    IF r.err # Nil THEN [token |-> ZeroToken(ZeroLoc), err |-> r.err]
    ELSE [token |-> r.token, err |-> Nil]

\* Two fresh lexers over the same content: on one only Next is called, on
\* the other Peek is called between the Next calls.
InitLex ==
    /\ input \in {[op |-> "Lexer", text |-> t] : t \in LexTexts}
    /\ output = [plain |-> NewLexer(input.text, 0), peeked |-> NewLexer(input.text, 0),
                 nexts |-> 0, plainNext |-> <<>>, peekedNext |-> <<>>,
                 peeksBefore |-> <<>>, peeks |-> <<>>]
    /\ lines = <<>>
    /\ grammar = EmptyGrammar
    /\ parsingError = FALSE
    /\ stderr = <<>>
    /\ stdout = <<>>
    /\ pc = "lex"
    /\ flags = NoFlags
    /\ visited = {}
    /\ generated = 0
    /\ last = NoOutcome

\* lexer.Peek() on the second lexer.
CallPeek ==
    /\ pc = "lex"
    /\ Len(output.peeks) < MaxPeeks
    /\ \E r \in {Peek(output.peeked)} :
         output' = [output EXCEPT !.peeked = r.lexer,
                                  !.peeks = Append(@, Returned(r))]
    /\ UNCHANGED <<lines, grammar, parsingError, stderr, stdout, pc, flags, visited,
                   generated, last, input>>

\* lexer.Next() on both lexers.
CallNext ==
    /\ pc = "lex"
    /\ output.nexts < MaxNexts
    /\ \E p \in {LexNext(output.plain)}, q \in {LexNext(output.peeked)} :
         output' = [plain |-> p.lexer, peeked |-> q.lexer,
                    nexts |-> output.nexts + 1,
                    plainNext |-> <<Returned(p)>>, peekedNext |-> <<Returned(q)>>,
                    peeksBefore |-> output.peeks, peeks |-> <<>>]
    /\ UNCHANGED <<lines, grammar, parsingError, stderr, stdout, pc, flags, visited,
                   generated, last, input>>

NextLex == CallPeek \/ CallNext

\* Calls of Peek and Next on lexers over the line contents.
SpecLex == InitLex /\ [][NextLex]_vars

\* C14: Peek does not consume.  The Next calls on the lexer that is also
\* peeked return what they return on the lexer that is not; the Peek calls
\* made in a row return the same; a Peek that returned a token is followed
\* by a Next that returns that token.
C14_PeekDoesNotConsume ==
    pc = "lex" =>
        /\ output.peekedNext = output.plainNext
        /\ \A i, j \in 1..Len(output.peeks) : output.peeks[i] = output.peeks[j]
        /\ \A i, j \in 1..Len(output.peeksBefore) :
               output.peeksBefore[i] = output.peeksBefore[j]
        /\ (output.peeksBefore # <<>> /\ output.peeksBefore[Len(output.peeksBefore)].err = Nil)
             => output.peekedNext = <<output.peeksBefore[Len(output.peeksBefore)]>>

\* C14: on `%xZZ = "a"` the first Next of the plain lexer returned the
\* diagnostic of the malformed value range; on the other lexer a Peek
\* returned that diagnostic and the Next after it returned the symbol ZZ.
C14_NextAfterFailedPeekDiffers ==
    /\ pc = "lex"
    /\ input.text = <<37, 120, 90, 90, 32, 61, 32, 34, 97, 34>>
    /\ output.nexts = 1
    /\ Len(output.peeksBefore) = 1
    /\ output.peeksBefore[1].err # Nil
    /\ output.plainNext[1].err = output.peeksBefore[1].err
    /\ output.peekedNext[1].err = Nil
    /\ output.peekedNext[1].token.Kind = "TokenSymbol"
    /\ output.peekedNext[1].token.Text = <<90, 90>>

\* Text a is a proper prefix of text b.
ProperPrefix(a, b) == Len(a) < Len(b) /\ SubSeq(b, 1, Len(a)) = a

\* The lexer of the Next-only calls, at the start of its next token.
NextTokenStart == SkipComment(Trim(output.plain))

\* The result of a Next call that chopped the literal text of the given kind
\* at the token start at.
LiteralReturned(at, text, kind) ==
    [token |-> [Kind |-> kind, Text |-> text, Number |-> UintOf(0),
                Loc |-> LexerLoc(at)],
     err |-> Nil]

\* C15: a Next call on text that starts with =/ at the token position
\* returns one incremental-alternative token with text =/ and moves past
\* both characters; on text that starts with ::= it returns one definition
\* token with text ::= and moves past the three characters; no entry of the
\* literal table comes after an entry that is a proper prefix of it.
C15_LongestLiteralWins ==
    [][ (pc = "lex" /\ output'.nexts = output.nexts + 1) =>
          /\ Prefix(NextTokenStart, <<61, 47>>) =>
               /\ output'.plainNext
                    = <<LiteralReturned(NextTokenStart, <<61, 47>>, "TokenIncAlternative")>>
               /\ output'.plain.Col = NextTokenStart.Col + 2
          /\ Prefix(NextTokenStart, <<58, 58, 61>>) =>
               /\ output'.plainNext
                    = <<LiteralReturned(NextTokenStart, <<58, 58, 61>>, "TokenDefinition")>>
               /\ output'.plain.Col = NextTokenStart.Col + 3
          /\ \A i, j \in 1..Len(LiteralTokens) :
               i < j => ~ProperPrefix(LiteralTokens[i].Text, LiteralTokens[j].Text)
      ]_vars

\* C15: on x=/y::=z=w, without blanks, the fourth Next has returned the
\* definition token ::= that starts at column 4, right after the symbol y
\* that follows =/.
C15_AdjacentLiteralsChopped ==
    /\ pc = "lex"
    /\ input.text = <<120, 61, 47, 121, 58, 58, 61, 122, 61, 119>>
    /\ output.nexts = 4
    /\ output.plainNext[1].token.Kind = "TokenDefinition"
    /\ output.plainNext[1].token.Text = <<58, 58, 61>>
    /\ output.plainNext[1].token.Loc = Loc(0, 4)
    /\ output.plain.Col = 7

(***************************************************************************)
(* The examples of the README                                              *)
(***************************************************************************)

NameOctal == <<79, 67, 84, 65, 76>>
NameMumble == <<109, 117, 109, 98, 108, 101>>

\* The three ways to write the octal digits.
OctalLines ==
\*   OCTAL = %x30-37
    { <<79, 67, 84, 65, 76, 32, 61, 32, 37, 120, 51, 48, 45, 51, 55>>,
\*   OCTAL = "0" / "1" / "2" / "3" / "4" / "5" / "6" / "7"
      <<79, 67, 84, 65, 76, 32, 61, 32, 34, 48, 34, 32, 47, 32, 34, 49, 34, 32, 47,
        32, 34, 50, 34, 32, 47, 32, 34, 51, 34, 32, 47, 32, 34, 52, 34, 32, 47, 32,
        34, 53, 34, 32, 47, 32, 34, 54, 34, 32, 47, 32, 34, 55, 34>>,
\*   OCTAL = "\x30" ... "\x37"
      <<79, 67, 84, 65, 76, 32, 61, 32, 34, 92, 120, 51, 48, 34, 32, 46, 46, 46, 32,
        34, 92, 120, 51, 55, 34>> }

\* The concatenation example, line by line.
MumbleFile ==
\*   fu = %x61 ; a
    << <<102, 117, 32, 61, 32, 37, 120, 54, 49, 32, 59, 32, 97>>,
\*   bar = %x62 ; b
       <<98, 97, 114, 32, 61, 32, 37, 120, 54, 50, 32, 59, 32, 98>>,
\*   mumble = fu bar fu
       <<109, 117, 109, 98, 108, 101, 32, 61, 32, 102, 117, 32, 98, 97, 114, 32, 102, 117>> >>

ReadmeLines == OctalLines \cup {MumbleFile[i] : i \in 1..3}

ReadmeEntries == {NameOctal, NameMumble, ListAll}

NextReadme == Main(ReadmeLines, ReadmeEntries)

\* Runs of main over the lines of the README examples.
SpecReadme == Init /\ [][NextReadme]_vars

\* C16: each of the three OCTAL lines, read alone, writes no diagnostic and
\* defines a rule OCTAL from which generation returns exactly the eight
\* one-character texts 0 to 7.
C16_OctalFormsEquivalent ==
    (pc = "lines" /\ Len(lines) = 1 /\ lines[1] \in OctalLines) =>
        /\ stderr = <<>>
        /\ ~parsingError
        /\ DOMAIN grammar = {NameOctal}
        /\ Generated(grammar, NameOctal) = {<<"ok", <<ch>>>> : ch \in 48..55}

\* C16: the line OCTAL = "\x30" ... "\x37" was read alone and two messages
\* were generated from OCTAL: 0 and then 7.
C16_OctalDigitsGenerated ==
    /\ pc = "exit0"
    /\ lines = << <<79, 67, 84, 65, 76, 32, 61, 32, 34, 92, 120, 51, 48, 34, 32, 46,
                    46, 46, 32, 34, 92, 120, 51, 55, 34>> >>
    /\ flags.entry = NameOctal
    /\ stderr = <<>>
    /\ Len(stdout) = 2
    /\ stdout[1].Text = <<48>> /\ stdout[2].Text = <<55>>

\* C17: the three lines of the concatenation example are read without a
\* diagnostic, and generation from mumble returns aba.
C17_ConcatenationExampleGenerates ==
    (pc = "lines" /\ lines = MumbleFile) =>
        /\ stderr = <<>>
        /\ ~parsingError
        /\ DOMAIN grammar = {<<102, 117>>, <<98, 97, 114>>, NameMumble}
        /\ Generated(grammar, NameMumble) = {<<"ok", <<97, 98, 97>>>>}

\* C17: the three lines were read: the first two each wrote the diagnostic
\* of a value range without a dash, the table holds mumble alone, and the
\* run was failed at the end of the file.
C17_ValueWithoutDashRejected ==
    /\ pc = "exit1"
    /\ lines = MumbleFile
    /\ parsingError
    /\ Len(stderr) = 2
    /\ \A i \in 1..2 :
         /\ stderr[i].Err = "Expected dash between lower and upper bounds of value range token"
         /\ stderr[i].Loc.Row = i - 1
    /\ DOMAIN grammar = {NameMumble}

(***************************************************************************)
(* The -dump flag                                                          *)
(***************************************************************************)

\* C18: once -dump is read as set, main has returned with code 0 and has
\* printed the textual form of the entry rule, or with -entry ! of every
\* rule of the table in the order of the names, and nothing else: no message
\* was generated and no String method panicked.
C18_DumpPrintsTextualForm ==
    flags.dump = "set" =>
        /\ pc = "exit0"
        /\ last = NoOutcome
        /\ \A i \in 1..Len(stdout) : stdout[i].Kind = "dump"
        /\ IF flags.entry = ListAll
           THEN /\ Len(stdout) = Cardinality(DOMAIN grammar)
                /\ \A i \in 1..Len(stdout) :
                     stdout[i].Loc = grammar[SortedNames(DOMAIN grammar)[i]].Head.Loc
           ELSE /\ Len(stdout) = 1
                /\ stdout[1].Loc = grammar[flags.entry].Head.Loc

\* C18: the rule s = %x30-32, a Range, was read and -entry s -dump ended in
\* the panic of ExprRange.String, with nothing printed.
C18_DumpOfRangePanicked ==
    /\ flags.dump = "set"
    /\ flags.entry = NameS
    /\ lines = << <<115, 32, 61, 32, 37, 120, 51, 48, 45, 51, 50>> >>
    /\ grammar[NameS].Body.Type = "ExprRange"
    /\ pc = "panic"
    /\ stdout = <<>>

(***************************************************************************)
(* When the generator runs                                                 *)
(***************************************************************************)

\* The names the -verify check has reported as not defined.
ReportedUndefined ==
    {stderr[i].Args :
       i \in {j \in 1..Len(stderr) : stderr[j].Err = "Symbol %s is not defined"}}

\* Some item printed is a generated message.
MessagePrinted == \E i \in 1..Len(stdout) : stdout[i].Kind = "message"

\* The line loop is over and one of the conditions of generation has failed:
\* a line wrote a diagnostic, -verify found an undefined symbol, -entry names
\* no rule, or -unused found an unused rule.
GenerationRuledOut ==
    /\ pc # "lines"
    /\ \/ parsingError
       \/ flags.verify = "set" /\ ReportedUndefined # {}
       \/ flags.entry # <<>> /\ flags.entry \notin DOMAIN grammar
       \/ flags.unused = "set" /\ ReportedUnused # {}

MaxRepeat == 4

\* lower <= k <= upper, k a small natural number and the bounds uints.
CountInBounds(k, lower, upper) ==
    ~UintLess(UintOf(k), lower) /\ ~UintLess(upper, UintOf(k))

RECURSIVE RefLanguage(_, _, _)

RECURSIVE RefConcat(_, _, _, _)
\* The texts of elements[i..] concatenated in element order.
RefConcat(g, elements, i, depth) ==
    IF i > Len(elements) THEN {<<>>}
    ELSE {a \o b : a \in RefLanguage(g, elements[i], depth),
                   b \in RefConcat(g, elements, i + 1, depth)}

RECURSIVE RefPower(_, _)
\* The k-fold concatenations of texts of L.
RefPower(L, k) ==
    IF k = 0 THEN {<<>>} ELSE {a \o b : a \in L, b \in RefPower(L, k - 1)}

\* The reference language of a node, the repetition counts above MaxRepeat
\* left out; a Symbol is followed at most depth times.
RefLanguage(g, expr, depth) ==
    IF expr.Type = "ExprString" THEN {expr.Text}
    ELSE IF expr.Type = "ExprSymbol"
    THEN IF expr.Name \notin DOMAIN g \/ depth = 0 THEN {}
         ELSE RefLanguage(g, g[expr.Name].Body, depth - 1)
    ELSE IF expr.Type = "ExprConcat" THEN RefConcat(g, expr.Elements, 1, depth)
    ELSE IF expr.Type = "ExprAlternation"
    THEN UNION {RefLanguage(g, expr.Variants[i], depth) : i \in 1..Len(expr.Variants)}
    ELSE IF expr.Type = "ExprRepetition"
    THEN UNION {RefPower(RefLanguage(g, expr.Body, depth), k) :
                  k \in {n \in 0..MaxRepeat : CountInBounds(n, expr.Lower, expr.Upper)}}
    ELSE {<<ch>> : ch \in expr.Lower..expr.Upper}

RECURSIVE InLanguage(_, _, _, _)

RECURSIVE InConcat(_, _, _, _, _)
\* text is a text of elements[i], then one of elements[i + 1], and so on.
InConcat(g, elements, i, text, depth) ==
    IF i > Len(elements) THEN text = <<>>
    ELSE \E cut \in 0..Len(text) :
           /\ InLanguage(g, elements[i], SubSeq(text, 1, cut), depth)
           /\ InConcat(g, elements, i + 1, SubSeq(text, cut + 1, Len(text)), depth)

RECURSIVE InParts(_, _, _, _, _)
\* text is the concatenation of j texts of body, none of them empty.
InParts(g, body, text, j, depth) ==
    IF j = 0 THEN text = <<>>
    ELSE \E cut \in 1..Len(text) :
           /\ InLanguage(g, body, SubSeq(text, 1, cut), depth)
           /\ InParts(g, body, SubSeq(text, cut + 1, Len(text)), j - 1, depth)

\* text is in the reference language of the node, whatever its repetition
\* counts.  A text of a Repetition is j non-empty texts of the body and
\* k - j empty ones, for a count k within the bounds: j is within the
\* bounds itself, or the body has the empty text and j is below the upper
\* bound, the bounds not being inverted.
InLanguage(g, expr, text, depth) ==
    IF expr.Type = "ExprString" THEN text = expr.Text
    ELSE IF expr.Type = "ExprSymbol"
    THEN /\ expr.Name \in DOMAIN g
         /\ depth > 0
         /\ InLanguage(g, g[expr.Name].Body, text, depth - 1)
    ELSE IF expr.Type = "ExprConcat" THEN InConcat(g, expr.Elements, 1, text, depth)
    ELSE IF expr.Type = "ExprAlternation"
    THEN \E i \in 1..Len(expr.Variants) : InLanguage(g, expr.Variants[i], text, depth)
    ELSE IF expr.Type = "ExprRepetition"
    THEN \E j \in 0..Len(text) :
           /\ InParts(g, expr.Body, text, j, depth)
           /\ \/ CountInBounds(j, expr.Lower, expr.Upper)
              \/ /\ InLanguage(g, expr.Body, <<>>, depth)
                 /\ UintLess(UintOf(j), expr.Upper)
                 /\ ~UintLess(expr.Upper, expr.Lower)
    ELSE Len(text) = 1 /\ text[1] \in expr.Lower..expr.Upper

\* The texts GenerateRandomMessage can return for the node, over all draws.
GeneratedTexts(g, expr) ==
    {o.Message : o \in {c \in GenerateRandomMessage(g, expr, MaxDepth) : c.Status = "ok"}}

\* C20: for every node of every rule of the table, the texts the generator
\* can return are texts of the reference language of the node, and every
\* text of the reference language (for the repetition counts up to
\* MaxRepeat) can be returned.
C20_GeneratedTextsAreTheLanguage ==
    pc = "verify" =>
        \A node \in GrammarNodes(grammar) :
            /\ \A text \in GeneratedTexts(grammar, node) :
                   InLanguage(grammar, node, text, MaxDepth)
            /\ RefLanguage(grammar, node, MaxDepth) \subseteq GeneratedTexts(grammar, node)

\* C20: the rule s = 2147483648"a" was read, and generation from it
\* returns the empty text, which is not a text of 2147483648 times a.
C20_EmptyTextOutsideLanguage ==
    /\ pc = "verify"
    /\ lines = << <<115, 32, 61, 32, 50, 49, 52, 55, 52, 56, 51, 54, 52, 56, 34, 97, 34>> >>
    /\ grammar[NameS].Body.Type = "ExprRepetition"
    /\ GeneratedTexts(grammar, grammar[NameS].Body) = {<<>>}
    /\ ~InLanguage(grammar, grammar[NameS].Body, <<>>, MaxDepth)
    /\ InLanguage(grammar, grammar[NameS].Body.Body, <<97>>, MaxDepth)

(***************************************************************************)
(* An undefined symbol met by the generator                                *)
(***************************************************************************)

\* The call is one on a Symbol node of the table that names no rule.
CallOnUndefinedSymbol(call) ==
    /\ call.Type = "ExprSymbol"
    /\ \E node \in UndefinedSymbols(grammar) : node.Loc = call.Loc

\* The number of generated messages printed.
MessagesPrinted == Cardinality({i \in 1..Len(stdout) : stdout[i].Kind = "message"})

ExprPrimaries == { <<120>>, <<34, 115, 34>>, <<91, 32, 121, 32, 93>> }

\* The two spellings of the bar:  |   /
Bars == { <<124>>, <<47>> }

\* The repetition prefixes  n   n*m   *m  as (lower, star, upper); -1 is none.
Prefixes == { <<2, FALSE, -1>>, <<1, TRUE, 2>>, <<-1, TRUE, 2>> }

\* Runs the digit test accepts:  7  42  65536  4294967296
\* 18446744073709551615  18446744073709551616  1(superscript two)
\* (superscript two)
DigitRuns ==
    { <<55>>,
      <<52, 50>>,
      <<54, 53, 53, 51, 54>>,
      <<52, 50, 57, 52, 57, 54, 55, 50, 57, 54>>,
      <<49, 56, 52, 52, 54, 55, 52, 52, 48, 55, 51, 55, 48, 57, 53, 53, 49, 54, 49, 53>>,
      <<49, 56, 52, 52, 54, 55, 52, 52, 48, 55, 51, 55, 48, 57, 53, 53, 49, 54, 49, 54>>,
      <<49, 178>>,
      <<178>> }

\* Lines with a lexical error after a well-formed start, and their error-free
\* neighbours:  1*%xZZ   1*"\q"   *%xZZ   x %xZZ   2 %xZZ   "a" ... %xZZ
\* "a" ... "c"   1*2 x   3* x   1*
OtherTexts ==
    { <<49, 42, 37, 120, 90, 90>>,
      <<49, 42, 34, 92, 113, 34>>,
      <<42, 37, 120, 90, 90>>,
      <<120, 32, 37, 120, 90, 90>>,
      <<50, 32, 37, 120, 90, 90>>,
      <<34, 97, 34, 32, 46, 46, 46, 32, 37, 120, 90, 90>>,
      <<34, 97, 34, 32, 46, 46, 46, 32, 34, 99, 34>>,
      <<49, 42, 50, 32, 120>>,
      <<51, 42, 32, 120>>,
      <<49, 42>> }

ExprInput(form, text, parts, bars) ==
    [op |-> "ParseExpr", form |-> form, text |-> text, parts |-> parts, bars |-> bars]

\* a b | c d   and   a b | c d / a b, each bar spelled either way.
AltInputs ==
    { ExprInput("alt", a \o <<32>> \o b \o <<32>> \o bar \o <<32>> \o c \o <<32>> \o d,
                <<a, b, c, d>>, <<bar>>) :
        a \in ExprPrimaries, b \in ExprPrimaries, c \in ExprPrimaries,
        d \in ExprPrimaries, bar \in Bars }
    \cup
    { ExprInput("alt", p[1] \o <<32>> \o p[2] \o <<32>> \o bars[1] \o <<32>> \o p[3]
                       \o <<32>> \o p[4] \o <<32>> \o bars[2] \o <<32>> \o p[1]
                       \o <<32>> \o p[2],
                p, bars) :
        p \in ExprPrimaries \X ExprPrimaries \X ExprPrimaries \X ExprPrimaries,
        bars \in Bars \X Bars }

\* A repetition prefix, a primary a, and a second primary b.
PrefixInputs ==
    { ExprInput("prefix", PrefixText(p[1], p[2], p[3], a) \o <<32>> \o b,
                <<a, b, PrefixText(p[1], p[2], p[3], a)>>, <<>>) :
        p \in Prefixes, a \in ExprPrimaries, b \in ExprPrimaries }

\* A run of digits and the primary it counts.
CountInputs ==
    { ExprInput("count", run \o <<32, 120>>, <<run, <<120>>>>, <<>>) : run \in DigitRuns }

OtherInputs == { ExprInput("other", text, <<>>, <<>>) : text \in OtherTexts }

InitParseExpr ==
    /\ input \in AltInputs \cup PrefixInputs \cup CountInputs \cup OtherInputs
    /\ output = NoOutput
    /\ lines = <<>>
    /\ grammar = EmptyGrammar
    /\ parsingError = FALSE
    /\ stderr = <<>>
    /\ stdout = <<>>
    /\ pc = "call"
    /\ flags = NoFlags
    /\ visited = {}
    /\ generated = 0
    /\ last = NoOutcome

\* The call ParseExpr(&lexer) on a fresh lexer over the input text.
CallParseExpr ==
    /\ pc = "call"
    /\ input.op = "ParseExpr"
    /\ output' = [done |-> TRUE, result |-> ParseExpr(NewLexer(input.text, 0))]
    /\ pc' = "return"
    /\ UNCHANGED <<lines, grammar, parsingError, stderr, stdout, flags, visited,
                   generated, last, input>>

NextParseExpr == CallParseExpr

SpecParseExpr == InitParseExpr /\ [][NextParseExpr]_vars

RECURSIVE LexFailsFrom(_)
\* Reading the tokens one after the other with Next, from a lexer on, meets a
\* diagnostic before the end of the line.
LexFailsFrom(lexer) ==
    LET n == LexNext(lexer)
    IN  IF n.err # Nil THEN TRUE
        ELSE IF n.token.Kind = "TokenEOL" THEN FALSE
        ELSE LexFailsFrom(n.lexer)

\* ParseExpr returned an expression and no diagnostic, and left nothing of the
\* line unread: every token of the line was asked of the lexer.
ParsedWholeLine ==
    /\ output.done
    /\ output.result.err = Nil
    /\ Peek(output.result.lexer).err = Nil
    /\ Peek(output.result.lexer).token.Kind = "TokenEOL"

\* C22: a line on which some token fails to lex is never parsed to its end
\* without a diagnostic: the Peek or Next call that asked for the failing
\* token returned a diagnostic, so ParseExpr returns one.
C22_LexicalErrorFailsParse ==
    (output.done /\ LexFailsFrom(NewLexer(input.text, 0))) => ~ParsedWholeLine

\* C22: on 1*%xZZ the peek for the upper bound fails on %xZZ and the parse
\* returns Repetition{1, 20, Symbol ZZ} with no diagnostic.
C22_FailedUpperBoundPeekParsed ==
    /\ output.done
    /\ input.text = <<49, 42, 37, 120, 90, 90>>
    /\ Peek([Peek(LexNext(NewLexer(input.text, 0)).lexer).lexer
                EXCEPT !.PeekFull = FALSE]).err # Nil
    /\ output.result.err = Nil
    /\ StripLoc(output.result.expr) =
         ExprRepetition(ZeroLoc, ExprSymbol(ZeroLoc, <<90, 90>>), UintOf(1),
                        UintOf(MaxUnspecifiedUpperRepetitionBound))
    /\ ParsedWholeLine

\* The parse of a primary expression written alone, locations cleared.
PrimaryAlone(text) == StripLoc(ParsePrimaryExpr(NewLexer(text, 0)).expr)

\* The concatenation of the primaries a and b.
ConcatOf(a, b) == ExprConcat(ZeroLoc, <<PrimaryAlone(a), PrimaryAlone(b)>>)

RECURSIVE RepeatedBody(_)
\* What a repetition node repeats, below every repetition node.
RepeatedBody(expr) ==
    IF expr.Type = "ExprRepetition" THEN RepeatedBody(expr.Body) ELSE expr

\* The alternation expected of the text a b | c d, and of a b | c d / a b.
ExpectedAlternation(parts, bars) ==
    ExprAlternation(ZeroLoc,
        <<ConcatOf(parts[1], parts[2]), ConcatOf(parts[3], parts[4])>>
        \o (IF Len(bars) = 2 THEN <<ConcatOf(parts[1], parts[2])>> ELSE <<>>))

\* C23: a b | c d parses to Alternation[Concat[a, b], Concat[c, d]] whichever
\* way each bar is spelled, a third variant after a second bar included; and
\* a prefix n, n*m or *m before a in the text `prefix a b` yields
\* Concat[R, b] with R the repetition of a alone.
C23_AlternationLooserRepetitionTighter ==
    /\ (output.done /\ input.form = "alt") =>
          /\ output.result.err = Nil
          /\ StripLoc(output.result.expr) = ExpectedAlternation(input.parts, input.bars)
    /\ (output.done /\ input.form = "prefix") =>
          /\ output.result.err = Nil
          /\ output.result.expr.Type = "ExprConcat"
          /\ Len(output.result.expr.Elements) = 2
          /\ output.result.expr.Elements[1].Type = "ExprRepetition"
          /\ StripLoc(output.result.expr.Elements[1]) = PrimaryAlone(input.parts[3])
          /\ RepeatedBody(StripLoc(output.result.expr.Elements[1])) =
                RepeatedBody(PrimaryAlone(input.parts[1]))
          /\ StripLoc(output.result.expr.Elements[2]) = PrimaryAlone(input.parts[2])

\* C23: the line  x "s" | [ y ] x / x "s"  with both spellings of the bar was
\* parsed to an alternation of three concatenations.
C23_MixedBarsParsed ==
    /\ output.done
    /\ input.form = "alt"
    /\ input.bars = << <<124>>, <<47>> >>
    /\ input.parts = << <<120>>, <<34, 115, 34>>, <<91, 32, 121, 32, 93>>, <<120>> >>
    /\ output.result.err = Nil
    /\ output.result.expr.Type = "ExprAlternation"
    /\ Len(output.result.expr.Variants) = 3
    /\ \A i \in 1..3 : output.result.expr.Variants[i].Type = "ExprConcat"

RECURSIVE WideMulAdd(_, _, _)
\* x * m + carry on natural numbers of any size: little-endian 16-bit limbs,
\* no limb dropped, the top limb never zero.
WideMulAdd(x, m, carry) ==
    IF x = <<>> THEN (IF carry = 0 THEN <<>> ELSE <<carry>>)
    ELSE LET t == x[1] * m + carry
         IN  <<t % 65536>> \o WideMulAdd(Tail(x), m, t \div 65536)

RECURSIVE WideOf(_)
\* A tuple of limbs without its zero limbs at the top.
WideOf(x) ==
    IF x = <<>> \/ x[Len(x)] # 0 THEN x ELSE WideOf(SubSeq(x, 1, Len(x) - 1))

RECURSIVE WideLessAt(_, _, _)
WideLessAt(x, y, i) ==
    IF i = 0 THEN FALSE
    ELSE IF x[i] # y[i] THEN x[i] < y[i]
    ELSE WideLessAt(x, y, i - 1)

\* x < y on natural numbers of any size.
WideLess(x, y) ==
    IF Len(x) # Len(y) THEN Len(x) < Len(y) ELSE WideLessAt(x, y, Len(x))

RECURSIVE DecimalValue(_, _)
\* The base-10 value of a run of digit values, most significant first, after
\* the value read so far.
DecimalValue(digits, value) ==
    IF digits = <<>> THEN value
    ELSE DecimalValue(Tail(digits), WideOf(WideMulAdd(value, 10, Head(digits))))

IsDecimalDigit(ch) == ch \in 48..57

\* The number the parse of `run x` put into the repetition it returned.
CountParsed == WideOf(output.result.expr.Lower)

\* C24: a run the digit test accepts, followed by x, is read as one number
\* token, the count of one repetition of x, and the number is the base-10
\* value of the run: exactly that of its digits 0..9, and for a run with
\* another accepted character a value some digits 0..9 in its places give
\* (at most that of the run of nines of its length).
C24_NumberIsDecimalValueOfRun ==
    (output.done /\ input.form = "count") =>
        /\ output.result.err = Nil
        /\ output.result.expr.Type = "ExprRepetition"
        /\ output.result.expr.Body.Type = "ExprSymbol"
        /\ output.result.expr.Lower = output.result.expr.Upper
        /\ LET run == input.parts[1]
           IN  IF \A i \in 1..Len(run) : IsDecimalDigit(run[i])
               THEN CountParsed = DecimalValue([i \in 1..Len(run) |-> run[i] - 48], <<>>)
               ELSE ~WideLess(DecimalValue([i \in 1..Len(run) |-> 9], <<>>), CountParsed)

\* C24: the run 18446744073709551616 (2^64) was read as the number 0, and the
\* run of the one character superscript two as the number 130.
C24_WrappedOrNonDecimalNumberRead ==
    /\ output.done
    /\ input.form = "count"
    /\ output.result.err = Nil
    /\ \/ /\ input.parts[1] = <<49, 56, 52, 52, 54, 55, 52, 52, 48, 55, 51, 55, 48, 57,
                                 53, 53, 49, 54, 49, 54>>
          /\ output.result.expr.Lower = UintOf(0)
       \/ /\ input.parts[1] = <<178>>
          /\ output.result.expr.Lower = UintOf(130)

(***************************************************************************)
(* Runs of main over lines with trailing tokens, counts at and above 2^31, *)
(* and bodies whose textual form is read back.                             *)
(***************************************************************************)

EdgeLines ==
\*   r = "a" )
    { <<114, 32, 61, 32, 34, 97, 34, 32, 41>>,
\*   r = "b"
      <<114, 32, 61, 32, 34, 98, 34>>,
\*   r =/ "c" ]
      <<114, 32, 61, 47, 32, 34, 99, 34, 32, 93>>,
\*   r =/ "d"
      <<114, 32, 61, 47, 32, 34, 100, 34>>,
\*   s = 2147483648"a"
      <<115, 32, 61, 32, 50, 49, 52, 55, 52, 56, 51, 54, 52, 56, 34, 97, 34>>,
\*   s = *2147483648"a"
      <<115, 32, 61, 32, 42, 50, 49, 52, 55, 52, 56, 51, 54, 52, 56, 34, 97, 34>>,
\*   s = 4294967297"a"
      <<115, 32, 61, 32, 52, 50, 57, 52, 57, 54, 55, 50, 57, 55, 34, 97, 34>>,
\*   t = "a" ( "b" / "c" ) "d"
      <<116, 32, 61, 32, 34, 97, 34, 32, 40, 32, 34, 98, 34, 32, 47, 32, 34, 99, 34, 32,
        41, 32, 34, 100, 34>>,
\*   t = "a\"b"
      <<116, 32, 61, 32, 34, 97, 92, 34, 98, 34>>,
\*   t = "\x01"
      <<116, 32, 61, 32, 34, 92, 120, 48, 49, 34>>,
\*   t = 2"a"
      <<116, 32, 61, 32, 50, 34, 97, 34>>,
\*   t = "a" / "b" "c"
      <<116, 32, 61, 32, 34, 97, 34, 32, 47, 32, 34, 98, 34, 32, 34, 99, 34>> }

EdgeEntries == {NameR, NameS, NameT, ListAll}

NextEdge == Main(EdgeLines, EdgeEntries)

SpecEdge == Init /\ [][NextEdge]_vars

\* The line just read wrote a diagnostic and set the had-errors flag.
LineFailed == LineRead /\ Len(stderr') > Len(stderr) /\ parsingError'

\* C25: a line that sets the had-errors flag leaves the grammar table as it
\* was before the line.
C25_FailedLineLeavesTable == [][LineFailed => grammar' = grammar]_vars

\* C25: after  r = "a" )  and  r = "b"  the table holds the rule r with the
\* body "a" of the first line, whose trailing parenthesis was reported, and
\* the second line was reported as a redefinition.
C25_FailedLineDefinedRule ==
    /\ lines = << <<114, 32, 61, 32, 34, 97, 34, 32, 41>>,
                  <<114, 32, 61, 32, 34, 98, 34>> >>
    /\ DOMAIN grammar = {NameR}
    /\ grammar[NameR].Body = ExprString(Loc(0, 4), <<97>>)
    /\ Len(stderr) = 3
    /\ stderr[1].Loc = Loc(0, 8)
    /\ stderr[2] = DiagErr(Loc(1, 0), "redefinition of the rule %s", NameR, <<>>)
    /\ parsingError

\* C26: in every grammar table the line loop builds, each Alternation node
\* has at least two variants, so that the draw among them is over a range
\* that is not empty, and each Concatenation node has at least two elements;
\* no generation ends in the internal failure of the draw of a variant.
C26_AlternationsAndConcatsHaveTwoChildren ==
    /\ \A node \in GrammarNodes(grammar) :
          /\ node.Type = "ExprAlternation" =>
                Len(node.Variants) >= 2 /\ ~Int31nPanics(Len(node.Variants))
          /\ node.Type = "ExprConcat" => Len(node.Elements) >= 2
    /\ last.Status = "panic" => last.Calls[Len(last.Calls)].Type # "ExprAlternation"

\* C26: after  r = "a" "b"  and  r =/ "c"  the body of r is the alternation
\* of the concatenation and the string, and a message was generated from it.
C26_ConcatPromotedToAlternation ==
    /\ lines = << <<114, 32, 61, 32, 34, 97, 34, 32, 34, 98, 34>>,
                  <<114, 32, 61, 47, 32, 34, 99, 34>> >>
    /\ grammar[NameR].Body.Type = "ExprAlternation"
    /\ Len(grammar[NameR].Body.Variants) = 2
    /\ grammar[NameR].Body.Variants[1].Type = "ExprConcat"
    /\ Len(grammar[NameR].Body.Variants[1].Elements) = 2
    /\ grammar[NameR].Body.Variants[2].Type = "ExprString"
    /\ last.Status = "ok"
    /\ last.Calls[1].Type = "ExprAlternation"

\* The Repetition nodes of the table with lower <= upper.
OrderedRepetitions ==
    {node \in GrammarNodes(grammar) :
        node.Type = "ExprRepetition" /\ ~UintLess(node.Upper, node.Lower)}

\* C27: for a Repetition with lower <= upper the argument of the draw,
\* int32(upper - lower + 1), is positive, so that no generation ends in the
\* internal failure of that draw, and every count int32(lower) + draw lies
\* in [lower, upper]; each loop that ran expanded the body that many times.
C27_WideBoundsKeepCountInRange ==
    /\ \A node \in OrderedRepetitions :
          /\ ~Int31nPanics(RepetitionSpan(node))
          /\ \A draw \in Int31n(RepetitionSpan(node)) :
                CountWithin(RepetitionCount(node, draw), node.Lower, node.Upper)
    /\ last.Status = "panic" => last.Calls[Len(last.Calls)].Type # "ExprRepetition"
    /\ \A i \in 1..Len(last.Reps) :
          CountWithin(last.Reps[i].Count, last.Reps[i].Lower, last.Reps[i].Upper)

\* C27: the generation from  s = *2147483648"a" , a Repetition with the
\* bounds 0 and 2^31, ended in the internal failure of the draw, whose
\* argument int32(2^31 + 1) is negative.
C27_NegativeDrawRangeReached ==
    /\ lines = << <<115, 32, 61, 32, 42, 50, 49, 52, 55, 52, 56, 51, 54, 52, 56, 34, 97,
                    34>> >>
    /\ flags.entry = NameS
    /\ grammar[NameS].Body.Type = "ExprRepetition"
    /\ grammar[NameS].Body.Lower = UintOf(0)
    /\ grammar[NameS].Body.Upper = <<0, 32768, 0, 0>>
    /\ RepetitionSpan(grammar[NameS].Body) = -2147483647
    /\ last.Status = "panic"
    /\ last.Calls = <<Call(grammar[NameS].Body, "panic", <<>>)>>
    /\ pc = "panic"

\* The name of the rule a printed dump item is the textual form of.
RuleDumped(item) == CHOOSE name \in DOMAIN grammar : grammar[name].Head.Loc = item.Loc

\* The line loop, on an empty table, reads the text of a dump item back as
\* one rule with the name and, but for the locations, the body it was
\* printed from.
ReadBack(item) ==
    \E r \in {LineResult(EmptyGrammar, item.Text, 0)} :
        /\ ~r.failed
        /\ DOMAIN r.grammar = {RuleDumped(item)}
        /\ StripLoc(r.grammar[RuleDumped(item)].Body) =
              StripLoc(grammar[RuleDumped(item)].Body)

\* C28: with -dump every rule asked for is printed, no String method fails,
\* and each printed text reads back as the rule it was printed from.
C28_DumpReadsBack ==
    flags.dump = "set" =>
        /\ pc # "panic"
        /\ \A i \in 1..Len(stdout) : stdout[i].Kind = "dump" => ReadBack(stdout[i])

\* C28: the rule  t = "a" ( "b" / "c" ) "d" , a concatenation, was dumped
\* without the parentheses and its text reads back as an alternation.
C28_ParenthesesLostInDump ==
    /\ flags.dump = "set"
    /\ flags.entry = NameT
    /\ lines = << <<116, 32, 61, 32, 34, 97, 34, 32, 40, 32, 34, 98, 34, 32, 47, 32, 34,
                    99, 34, 32, 41, 32, 34, 100, 34>> >>
    /\ grammar[NameT].Body.Type = "ExprConcat"
    /\ Len(stdout) = 1
    /\ 40 \notin {stdout[1].Text[k] : k \in 1..Len(stdout[1].Text)}
    /\ \E r \in {LineResult(EmptyGrammar, stdout[1].Text, 0)} :
          /\ ~r.failed
          /\ r.grammar[NameT].Body.Type = "ExprAlternation"

\* The variants a body counts as before an incremental alternative.
VariantsOf(body) == IF body.Type = "ExprAlternation" THEN body.Variants ELSE <<body>>

\* The line just read is an incremental alternative that wrote no diagnostic.
AlternativeAdded ==
    /\ LineRead
    /\ LineDef(lines'[Len(lines')], Len(lines)).token.Kind = "TokenIncAlternative"
    /\ stderr' = stderr

\* What an incremental alternative for the rule name with the body `body`
\* changes of the table.
OnlyBodyExtended(name, body) ==
    /\ name \in DOMAIN grammar
    /\ DOMAIN grammar' = DOMAIN grammar
    /\ \A other \in DOMAIN grammar \ {name} : grammar'[other] = grammar[other]
    /\ grammar'[name].Head = grammar[name].Head
    /\ grammar'[name].Body.Type = "ExprAlternation"
    /\ grammar'[name].Body.Variants = Append(VariantsOf(grammar[name].Body), body)

\* C29: a successful =/ line for the name N keeps the head token of N, keeps
\* the previous variants of N in their order (a body that is no alternation
\* being the one previous variant) and appends the body of the line as the
\* last variant; every other rule is unchanged; and no step of main removes
\* a rule from the table.
C29_IncrementalAlternativeFrame ==
    [][ /\ AlternativeAdded =>
             OnlyBodyExtended(LineHead(lines'[Len(lines')], Len(lines)).token.Text,
                ParseExpr(LineDef(lines'[Len(lines')], Len(lines)).lexer).expr)
        /\ \A name \in DOMAIN grammar : name \in DOMAIN grammar'
      ]_vars

\* C29: after  s = 2147483648"a" ,  r = "b"  and  r =/ "d"  the rule r is
\* the alternation of "b" and "d" under the head of its definition, and the
\* rule s is in the table.
C29_BodyPromotedBesideOtherRule ==
    /\ lines = << <<115, 32, 61, 32, 50, 49, 52, 55, 52, 56, 51, 54, 52, 56, 34, 97, 34>>,
                  <<114, 32, 61, 32, 34, 98, 34>>,
                  <<114, 32, 61, 47, 32, 34, 100, 34>> >>
    /\ ~parsingError
    /\ DOMAIN grammar = {NameR, NameS}
    /\ grammar[NameR].Head.Loc = Loc(1, 0)
    /\ StripLoc(grammar[NameR].Body) =
         ExprAlternation(ZeroLoc, <<ExprString(ZeroLoc, <<98>>), ExprString(ZeroLoc, <<100>>)>>)
    /\ grammar[NameS].Head.Loc = Loc(0, 0)

(***************************************************************************)
(* The peek buffer invalidated after a successful Peek, beside one Next    *)
(***************************************************************************)

\* Line contents with the tokens the parser discards this way:
\* "a" ... "c" d    1*2 x    r =/ "a" | <b>    a "\q" b
DiscardTexts ==
    { <<34, 97, 34, 32, 46, 46, 46, 32, 34, 99, 34, 32, 100>>,
      <<49, 42, 50, 32, 120>>,
      <<114, 32, 61, 47, 32, 34, 97, 34, 32, 124, 32, 60, 98, 62>>,
      <<97, 32, 34, 92, 113, 34, 32, 98>> }

\* Two fresh lexers over the same content: on the first a token is discarded
\* by a Peek and `lexer.PeekFull = false`, on the second by a Next.
InitDiscard ==
    /\ input \in {[op |-> "Discard", text |-> t] : t \in DiscardTexts}
    /\ output = [first |-> NewLexer(input.text, 0), second |-> NewLexer(input.text, 0),
                 calls |-> 0, call |-> "none", before |-> "none",
                 peeked |-> ZeroToken(ZeroLoc),
                 firstReturned |-> <<>>, secondReturned |-> <<>>]
    /\ lines = <<>>
    /\ grammar = EmptyGrammar
    /\ parsingError = FALSE
    /\ stderr = <<>>
    /\ stdout = <<>>
    /\ pc = "discard"
    /\ flags = NoFlags
    /\ visited = {}
    /\ generated = 0
    /\ last = NoOutcome

\* On the first lexer a Peek that returns a token, then
\* `lexer.PeekFull = false`; on the second lexer lexer.Next().
PeekAndInvalidate ==
    /\ pc = "discard"
    /\ output.calls < MaxNexts
    /\ \E p \in {Peek(output.first)}, q \in {LexNext(output.second)} :
         /\ p.err = Nil
         /\ output' = [first |-> [p.lexer EXCEPT !.PeekFull = FALSE],
                       second |-> q.lexer,
                       calls |-> output.calls + 1,
                       call |-> "invalidate", before |-> output.call,
                       peeked |-> p.token,
                       firstReturned |-> <<>>, secondReturned |-> <<Returned(q)>>]
    /\ UNCHANGED <<lines, grammar, parsingError, stderr, stdout, pc, flags, visited,
                   generated, last, input>>

\* lexer.Next() on both lexers.
NextOnBoth ==
    /\ pc = "discard"
    /\ output.calls < MaxNexts
    /\ \E p \in {LexNext(output.first)}, q \in {LexNext(output.second)} :
         output' = [output EXCEPT !.first = p.lexer, !.second = q.lexer,
                                  !.calls = @ + 1,
                                  !.call = "next", !.before = output.call,
                                  !.firstReturned = <<Returned(p)>>,
                                  !.secondReturned = <<Returned(q)>>]
    /\ UNCHANGED <<lines, grammar, parsingError, stderr, stdout, pc, flags, visited,
                   generated, last, input>>

\* lexer.Peek() on both lexers.
PeekOnBoth ==
    /\ pc = "discard"
    /\ output.calls < MaxNexts
    /\ \E p \in {Peek(output.first)}, q \in {Peek(output.second)} :
         output' = [output EXCEPT !.first = p.lexer, !.second = q.lexer,
                                  !.calls = @ + 1,
                                  !.call = "peek", !.before = output.call,
                                  !.firstReturned = <<Returned(p)>>,
                                  !.secondReturned = <<Returned(q)>>]
    /\ UNCHANGED <<lines, grammar, parsingError, stderr, stdout, pc, flags, visited,
                   generated, last, input>>

NextDiscard == PeekAndInvalidate \/ NextOnBoth \/ PeekOnBoth

SpecDiscard == InitDiscard /\ [][NextDiscard]_vars

\* What later calls can see of a lexer: the buffer only while it is full.
Observable(lexer) ==
    IF lexer.PeekFull THEN lexer ELSE [lexer EXCEPT !.PeekBuf = ZeroToken(ZeroLoc)]

\* C30: a successful Peek followed by the invalidation of the buffer leaves
\* the lexer as the one Next call does, which returned the peeked token; so
\* every later Next and Peek returns on both lexers the same, and the call
\* that follows the invalidation of a token returns a token further right
\* in the line, or the diagnostic met there.
C30_InvalidatedPeekIsOneNext ==
    pc = "discard" =>
        /\ Observable(output.first) = Observable(output.second)
        /\ output.call = "invalidate" =>
              output.secondReturned = <<[token |-> output.peeked, err |-> Nil]>>
        /\ output.call \in {"next", "peek"} =>
              output.firstReturned = output.secondReturned
        /\ ( /\ output.call \in {"next", "peek"}
             /\ output.before = "invalidate"
             /\ output.peeked.Kind # "TokenEOL"
             /\ output.firstReturned[1].err = Nil ) =>
              /\ output.firstReturned[1].token # output.peeked
              /\ output.firstReturned[1].token.Loc.Col > output.peeked.Loc.Col

\* C30: on  "a" ... "c" d  the ellipsis was peeked and invalidated after the
\* Next that read "a", and the Next that followed returned the string "c".
C30_EllipsisDiscarded ==
    /\ pc = "discard"
    /\ input.text = <<34, 97, 34, 32, 46, 46, 46, 32, 34, 99, 34, 32, 100>>
    /\ output.calls = 3
    /\ output.call = "next"
    /\ output.before = "invalidate"
    /\ output.peeked.Kind = "TokenEllipsis"
    /\ output.firstReturned[1].token.Kind = "TokenString"
    /\ output.firstReturned[1].token.Text = <<99>>
====
